---- MODULE Spec2Model ----
(***************************************************************************)
(* Model of the fingerprint-gated build pipeline of amusic.py.             *)
(*                                                                         *)
(* The file system is a record fs = [file, side]: file[p] is the tracked   *)
(* file at path p, side[p] its parameter sidecar (p + PARAMS_EXT).  Four   *)
(* paths are tracked for one track: the source audio, the source image,    *)
(* the converted intermediate in conv_path and the destination file.       *)
(* Modification times are integers (seconds); `now` is the wall clock.     *)
(*                                                                         *)
(* The functions of amusic.py that touch no file (naming, resizing,        *)
(* metadata normalisation, batch fill) are operators; arg holds the        *)
(* arguments of a call of one of them and res what the call returned.      *)
(***************************************************************************)
EXTENDS Integers, FiniteSets, Sequences, TLC

VARIABLES fs, now, hist, last, ext, runs, arg, res

vars == <<fs, now, hist, last, ext, runs, arg, res>>

(***************************************************************************)
(* Bounds of the model.                                                    *)
(***************************************************************************)
MaxGap == 3
MaxExt == 1
MaxRuns == 2

(***************************************************************************)
(* Program constants.                                                      *)
(***************************************************************************)
ReadTdelta == -1
WriteTdelta == 1
MinImgWidth == 640
MinImgHeight == 480

Paths == {"music", "img", "conv", "dest"}
SrcPaths == {"music", "img"}
MusicIds == {1, 2}
ImgIds == {1, 2, 3}
SoxParams == {"p1", "p2"}
SoxOutcomes == {TRUE}

(***************************************************************************)
(* Values.  Every value is a record so that any two can be compared.       *)
(***************************************************************************)
None == [t |-> "none"]
Str(s) == [k |-> "str", v |-> s]
Date(s) == [k |-> "date", v |-> s]

Entry1 == [album |-> Str("Mass"), originaldate |-> Date("1994-04-01")]
Entry2 == [album |-> Str("Eldorado"), originaldate |-> Date("1994-04-01")]
Entry3 == [album |-> Str("Mass"), originaldate |-> Str("1994-04-01")]
Entries == {Entry1, Entry2, Entry3}

NoTags == [e |-> [album |-> "", originaldate |-> ""], img |-> 0]
NoFile == [exists |-> FALSE, id |-> 0, sox |-> "-", tags |-> NoTags, mtime |-> 0]
NoSide == [exists |-> FALSE, json |-> None, mtime |-> 0]

SrcFile(id, t) == [exists |-> TRUE, id |-> id, sox |-> "-", tags |-> NoTags, mtime |-> t]

ImgSize(id) == CASE id = 1 -> <<800, 600>>
                 [] id = 2 -> <<2000, 1500>>
                 [] id = 4 -> <<1000, 100>>
                 [] id = 5 -> <<640, 479>>
                 [] id = 6 -> <<640, 480>>
                 [] id = 7 -> <<639, 2000>>
                 [] id = 8 -> <<641, 479>>
                 [] id = 9 -> <<480, 640>>
                 [] id = 10 -> <<1122, 561>>
                 [] OTHER -> <<320, 240>>

(***************************************************************************)
(* _obj2jobj, dict2json and json.loads.  A date is rendered as a string in *)
(* DATE_FMT; everything else is JSON-native.  The sidecar holds the JSON   *)
(* value; json.loads returns that value.                                   *)
(***************************************************************************)
Obj2Jobj(x) == IF x.k = "date" THEN Str(x.v) ELSE x

JsonEntry(e) == [f \in DOMAIN e |-> Obj2Jobj(e[f])]

Dict2Json(params) ==
    IF params.t = "song" THEN [params EXCEPT !.entry = JsonEntry(params.entry)]
    ELSE params

JsonLoads(j) == j

Md5Params(id) == [t |-> "md5", md5 |-> id]
ConvParams(inp, sox) == [t |-> "conv", in_params |-> inp, sox_params |-> sox]
SongParams(mp, ip, e) == [t |-> "song", music_params |-> mp, img_params |-> ip, entry |-> e]

(***************************************************************************)
(* Fingerprint store.                                                      *)
(***************************************************************************)
\* Mutant: the sidecar's modification time is not looked at.
StoredTdNoMtime(f, p, tdelta) ==
    IF ~f.side[p].exists THEN None ELSE JsonLoads(f.side[p].json)

\* Mutant: the sidecar must be strictly later than the file.
StoredTdStrict(f, p, tdelta) ==
    IF ~f.side[p].exists THEN None
    ELSE IF f.side[p].mtime <= f.file[p].mtime THEN None
    ELSE JsonLoads(f.side[p].json)

StoredTd(f, p, tdelta) ==
    IF ~f.side[p].exists THEN None
    ELSE IF f.side[p].mtime < f.file[p].mtime + tdelta THEN None
    ELSE JsonLoads(f.side[p].json)

StoredParamsFor(f, p) == StoredTd(f, p, ReadTdelta)

\* Mutant: the sidecar keeps the file's own modification time.
WriteParamsForNoOffset(f, params, p) ==
    [f EXCEPT !.side[p] = [exists |-> TRUE, json |-> Dict2Json(params),
                           mtime |-> f.file[p].mtime]]

WriteParamsFor(f, params, p) ==
    [f EXCEPT !.side[p] = [exists |-> TRUE, json |-> Dict2Json(params),
                           mtime |-> f.file[p].mtime + WriteTdelta]]

WriteHashForFname(f, p) ==
    [fs |-> WriteParamsFor(f, Md5Params(f.file[p].id), p),
     params |-> Md5Params(f.file[p].id)]

\* Mutant: a destination without a readable sidecar is taken as up to date.
SameParamsForAbsentOk(f, exp, p) ==
    IF exp = None THEN FALSE
    ELSE LET out == StoredTd(f, p, ReadTdelta)
         IN IF out = None THEN f.file[p].exists ELSE out = JsonLoads(Dict2Json(exp))

\* Mutant: the expected parameters are compared without the JSON round trip.
SameParamsForRaw(f, exp, p) ==
    IF exp = None THEN FALSE
    ELSE LET out == StoredTd(f, p, ReadTdelta)
         IN IF out = None THEN FALSE ELSE out = exp

SameParamsFor(f, exp, p) ==
    IF exp = None THEN FALSE
    ELSE LET d2j2d == JsonLoads(Dict2Json(exp))
             out == StoredParamsFor(f, p)
         IN IF out = None THEN FALSE ELSE out = d2j2d

(***************************************************************************)
(* Effects of a call, kept for the properties: whether the transcoder and  *)
(* the tag writer ran, whether the image was opened and size-checked and   *)
(* whether it was resized and re-encoded, which files were hashed, which   *)
(* files and sidecars were written.                                        *)
(***************************************************************************)
NoEff == [sox |-> FALSE, tagged |-> FALSE, opened |-> FALSE, encoded |-> FALSE,
          hashed |-> {}, wfiles |-> {}, wsides |-> {}]

(***************************************************************************)
(* Conversion stage.                                                       *)
(***************************************************************************)
\* Mutant: the transcoder runs whatever the stored fingerprint is.
ConvertFileAlways(f, sox_params, soxOk, t) ==
    LET sp == StoredParamsFor(f, "music")
        miss == (sp = None)
        h == IF miss THEN WriteHashForFname(f, "music") ELSE [fs |-> f, params |-> sp]
        params == ConvParams(h.params, sox_params)
        f2 == [h.fs EXCEPT !.file["conv"] =
                  [exists |-> TRUE, id |-> f.file["music"].id,
                   sox |-> sox_params, tags |-> NoTags, mtime |-> t]]
    IN [ok |-> TRUE, fs |-> WriteParamsFor(f2, params, "conv"), params |-> params,
        eff |-> [NoEff EXCEPT !.sox = TRUE,
                              !.hashed = IF miss THEN {"music"} ELSE {},
                              !.wfiles = {"conv"},
                              !.wsides = IF miss THEN {"music", "conv"} ELSE {"conv"}]]

\* Mutant: a stored fingerprint with the same transcoder parameters is
\* taken as current, whatever source fingerprint it records.
ConvertFileParamsOnly(f, sox_params, soxOk, t) ==
    LET sp == StoredParamsFor(f, "music")
        miss == (sp = None)
        h == IF miss THEN WriteHashForFname(f, "music") ELSE [fs |-> f, params |-> sp]
        e1 == [NoEff EXCEPT !.hashed = IF miss THEN {"music"} ELSE {},
                            !.wsides = IF miss THEN {"music"} ELSE {}]
        params == ConvParams(h.params, sox_params)
        f2 == [h.fs EXCEPT !.file["conv"] =
                  [exists |-> TRUE, id |-> f.file["music"].id,
                   sox |-> sox_params, tags |-> NoTags, mtime |-> t]]
    IN IF StoredParamsFor(h.fs, "conv") # None
          /\ StoredParamsFor(h.fs, "conv").sox_params = sox_params
       THEN [ok |-> TRUE, fs |-> h.fs, params |-> params, eff |-> e1]
       ELSE [ok |-> TRUE, fs |-> WriteParamsFor(f2, params, "conv"), params |-> params,
             eff |-> [e1 EXCEPT !.sox = TRUE, !.wfiles = {"conv"},
                                !.wsides = @ \cup {"conv"}]]

ConvertFile(f, sox_params, soxOk, t) ==
    LET sp == StoredParamsFor(f, "music")
        miss == (sp = None)
        h == IF miss THEN WriteHashForFname(f, "music") ELSE [fs |-> f, params |-> sp]
        f1 == h.fs
        e1 == [NoEff EXCEPT !.hashed = IF miss THEN {"music"} ELSE {},
                            !.wsides = IF miss THEN {"music"} ELSE {}]
        params == ConvParams(h.params, sox_params)
    IN IF StoredParamsFor(f1, "conv") = params
       THEN [ok |-> TRUE, fs |-> f1, params |-> params, eff |-> e1]
       ELSE IF ~soxOk
       THEN [ok |-> FALSE, fs |-> f1, params |-> params,
             eff |-> [e1 EXCEPT !.sox = TRUE]]
       ELSE LET f2 == [f1 EXCEPT !.file["conv"] =
                          [exists |-> TRUE, id |-> f1.file["music"].id,
                           sox |-> sox_params, tags |-> NoTags, mtime |-> t]]
                f3 == WriteParamsFor(f2, params, "conv")
            IN [ok |-> TRUE, fs |-> f3, params |-> params,
                eff |-> [e1 EXCEPT !.sox = TRUE,
                                   !.wfiles = {"conv"},
                                   !.wsides = @ \cup {"conv"}]]

WriteConvertedFile(f, sox_params, soxOk, t) ==
    LET c == ConvertFile(f, sox_params, soxOk, t)
    IN IF ~c.ok THEN c
       ELSE [c EXCEPT !.fs.file["dest"] = [c.fs.file["conv"] EXCEPT !.mtime = t],
                      !.eff.wfiles = @ \cup {"dest"}]

(***************************************************************************)
(* Image stage.                                                            *)
(***************************************************************************)
\* Mutant: the image's fingerprint is recomputed on every call.
WriteProcImageAlwaysHash(f) ==
    [ok |-> ~(ImgSize(f.file["img"].id)[1] < MinImgWidth
              \/ (ImgSize(f.file["img"].id)[1] = MinImgWidth
                  /\ ImgSize(f.file["img"].id)[2] < MinImgHeight)),
     fs |-> WriteHashForFname(f, "img").fs,
     params |-> WriteHashForFname(f, "img").params,
     eff |-> [NoEff EXCEPT !.hashed = {"img"}, !.wsides = {"img"},
                           !.opened = TRUE,
                           !.encoded = ~(ImgSize(f.file["img"].id)[1] < MinImgWidth
                                         \/ (ImgSize(f.file["img"].id)[1] = MinImgWidth
                                             /\ ImgSize(f.file["img"].id)[2] < MinImgHeight))],
     data |-> f.file["img"].id]

\* Mutant: the image is opened, checked, resized and re-encoded only when
\* its fingerprint had to be recomputed.
WriteProcImageGated(f) ==
    LET sp == StoredParamsFor(f, "img")
        miss == (sp = None)
        h == IF miss THEN WriteHashForFname(f, "img") ELSE [fs |-> f, params |-> sp]
        ok == ~miss \/ ~(ImgSize(f.file["img"].id)[1] < MinImgWidth
                         \/ (ImgSize(f.file["img"].id)[1] = MinImgWidth
                             /\ ImgSize(f.file["img"].id)[2] < MinImgHeight))
    IN [ok |-> ok, fs |-> h.fs, params |-> h.params,
        eff |-> [NoEff EXCEPT !.hashed = IF miss THEN {"img"} ELSE {},
                              !.wsides = IF miss THEN {"img"} ELSE {},
                              !.opened = miss, !.encoded = miss /\ ok],
        data |-> IF miss THEN f.file["img"].id ELSE 0]

TupleLess(a, b) == a[1] < b[1] \/ (a[1] = b[1] /\ a[2] < b[2])

WriteProcImage(f) ==
    LET sp == StoredParamsFor(f, "img")
        miss == (sp = None)
        h == IF miss THEN WriteHashForFname(f, "img") ELSE [fs |-> f, params |-> sp]
        ok == ~TupleLess(ImgSize(f.file["img"].id), <<MinImgWidth, MinImgHeight>>)
        e1 == [NoEff EXCEPT !.hashed = IF miss THEN {"img"} ELSE {},
                            !.wsides = IF miss THEN {"img"} ELSE {},
                            !.opened = TRUE, !.encoded = ok]
    IN [ok |-> ok, fs |-> h.fs, params |-> h.params, eff |-> e1,
        data |-> f.file["img"].id]

(***************************************************************************)
(* Tag writer: every tag value is written as str(value).                   *)
(***************************************************************************)
WriteTags(f, entry, img_data, t) ==
    [f EXCEPT !.file["dest"].tags = [e |-> [k \in DOMAIN entry |-> entry[k].v],
                                     img |-> img_data],
              !.file["dest"].mtime = t]

JoinEff(a, b) ==
    [sox |-> a.sox \/ b.sox, tagged |-> a.tagged \/ b.tagged,
     opened |-> a.opened \/ b.opened, encoded |-> a.encoded \/ b.encoded,
     hashed |-> a.hashed \cup b.hashed, wfiles |-> a.wfiles \cup b.wfiles,
     wsides |-> a.wsides \cup b.wsides]

(***************************************************************************)
(* Track build orchestrator.                                               *)
(***************************************************************************)
\* Mutant: an existing destination is overwritten without force.
MustNotOverwriteOff(f, force) == FALSE

MustNotOverwrite(f, force) == f.file["dest"].exists /\ ~force

WriteSong(f, entry, sox_params, force, soxOk, t) ==
    LET exp == SongParams(StoredParamsFor(f, "music"), StoredParamsFor(f, "img"), entry)
    IN IF SameParamsFor(f, exp, "dest")
       THEN [result |-> "noop", fs |-> f, eff |-> NoEff]
       ELSE IF MustNotOverwrite(f, force)
       THEN [result |-> "conflict", fs |-> f, eff |-> NoEff]
       ELSE LET c == WriteConvertedFile(f, sox_params, soxOk, t)
            IN IF ~c.ok
               THEN [result |-> "soxfail", fs |-> c.fs, eff |-> c.eff]
               ELSE LET mp == StoredParamsFor(c.fs, "music")
                        i == WriteProcImage(c.fs)
                        e2 == JoinEff(c.eff, i.eff)
                    IN IF ~i.ok
                       THEN [result |-> "imgreject", fs |-> i.fs, eff |-> e2]
                       ELSE LET f3 == WriteTags(i.fs, entry, i.data, t)
                                f4 == WriteParamsFor(f3, SongParams(mp, i.params, entry),
                                                     "dest")
                            IN [result |-> "built", fs |-> f4,
                                eff |-> [e2 EXCEPT !.tagged = TRUE,
                                                   !.wsides = @ \cup {"dest"}]]

BuildOneResult(f, entry, sox_params, force, soxOk, t) ==
    WriteSong(f, entry, sox_params, force, soxOk, t)

(***************************************************************************)
(* History kept for the properties.  hist describes what happened since    *)
(* the last successful build; last describes the last call.                *)
(***************************************************************************)
NoHist == [kind |-> "none", entry |-> Entry1, sox |-> "p1"]
NoLast == [op |-> "none", entry |-> Entry1, sox |-> "p1", force |-> FALSE,
           result |-> "none", eff |-> NoEff, ctx |-> "none", pentry |-> Entry1]

Success(r) == r \in {"built", "noop"}

InitBuild ==
    /\ fs = [file |-> [p \in Paths |->
                          IF p = "music" THEN SrcFile(1, 0)
                          ELSE IF p = "img" THEN SrcFile(1, 0)
                          ELSE NoFile],
             side |-> [p \in Paths |-> NoSide]]
    /\ now = 0
    /\ hist = NoHist
    /\ last = NoLast
    /\ ext = 0
    /\ runs = [s \in SoxParams |-> 0]

Init == InitBuild /\ arg = None /\ res = None

Logged(sox_params, invoked) ==
    IF invoked /\ runs[sox_params] < MaxRuns
    THEN [runs EXCEPT ![sox_params] = @ + 1]
    ELSE runs

BuildOneG(entry, sox_params, force, soxOk, log) ==
    LET r == BuildOneResult(fs, entry, sox_params, force, soxOk, now)
    IN /\ soxOk \/ r.result = "soxfail"
       /\ fs' = r.fs
       /\ last' = [op |-> "build", entry |-> entry, sox |-> sox_params, force |-> force,
                   result |-> r.result, eff |-> r.eff, ctx |-> hist.kind,
                   pentry |-> hist.entry]
       /\ hist' = IF Success(r.result)
                  THEN [kind |-> "clean", entry |-> entry, sox |-> sox_params]
                  ELSE IF r.result = "conflict" THEN hist
                  ELSE [NoHist EXCEPT !.kind = "broken"]
       /\ runs' = IF log THEN Logged(sox_params, r.eff.sox) ELSE runs
       /\ UNCHANGED <<now, ext, arg, res>>

BuildOne(entry, sox_params, force, soxOk) ==
    BuildOneG(entry, sox_params, force, soxOk, FALSE)

BuildOneLogged(entry, sox_params, force) ==
    BuildOneG(entry, sox_params, force, TRUE, TRUE)

ExtHist(kind) ==
    IF hist.kind = "none" THEN hist
    ELSE IF hist.kind = "clean" THEN [hist EXCEPT !.kind = kind]
    ELSE [NoHist EXCEPT !.kind = "other"]

ModifyFile(p, id, dt) ==
    /\ ext < MaxExt
    /\ p \in SrcPaths
    /\ now' = now + dt
    /\ fs' = [fs EXCEPT !.file[p].id = id, !.file[p].mtime = now + dt]
    /\ hist' = ExtHist((IF id = fs.file[p].id THEN "touch_" ELSE "mut_") \o p)
    /\ last' = [NoLast EXCEPT !.op = "ext"]
    /\ ext' = ext + 1
    /\ UNCHANGED <<runs, arg, res>>

DeleteSidecar(p) ==
    /\ ext < MaxExt
    /\ fs.side[p].exists
    /\ fs' = [fs EXCEPT !.side[p] = NoSide]
    /\ hist' = ExtHist("del_" \o p)
    /\ last' = [NoLast EXCEPT !.op = "ext"]
    /\ ext' = ext + 1
    /\ UNCHANGED <<now, runs, arg, res>>

Next ==
    \/ \E e \in Entries, s \in SoxParams, force \in BOOLEAN, soxOk \in SoxOutcomes :
          BuildOne(e, s, force, soxOk)
    \/ \E id \in MusicIds, dt \in 0..MaxGap : ModifyFile("music", id, dt)
    \/ \E id \in ImgIds, dt \in 0..MaxGap : ModifyFile("img", id, dt)
    \/ \E p \in {"music", "img", "dest"} : DeleteSidecar(p)

Spec == Init /\ [][Next]_vars

(***************************************************************************)
(* Calls over unmodified source audio, with the transcoder runs counted    *)
(* per parameter set: build_one, and convert_file called on its own.       *)
(***************************************************************************)
ConvertCall(sox_params) ==
    LET c == ConvertFile(fs, sox_params, TRUE, now)
    IN /\ fs' = c.fs
       /\ last' = [NoLast EXCEPT !.op = "convert", !.sox = sox_params,
                                 !.result = "converted", !.eff = c.eff,
                                 !.ctx = hist.kind]
       /\ hist' = ExtHist("convert")
       /\ runs' = Logged(sox_params, c.eff.sox)
       /\ UNCHANGED <<now, ext, arg, res>>

NextConv ==
    \/ \E e \in Entries, s \in SoxParams, force \in BOOLEAN : BuildOneLogged(e, s, force)
    \/ \E s \in SoxParams : ConvertCall(s)
    \/ \E p \in {"music", "img", "dest"} : DeleteSidecar(p)

SpecConv == Init /\ [][NextConv]_vars

TypeOK ==
    /\ now \in 0..(MaxGap * MaxExt)
    /\ ext \in 0..MaxExt
    /\ \A s \in SoxParams : runs[s] \in 0..MaxRuns

(***************************************************************************)
(* Vocabulary of the properties.                                           *)
(***************************************************************************)
\* The entry as it reads in a sidecar: every date as its DATE_FMT string.
NormEntry(e) == [k \in DOMAIN e |-> Str(e[k].v)]

\* The fields in which two entries differ.
DiffFields(a, b) == {k \in DOMAIN a : a[k] # b[k]}

\* The fingerprint write_song expects of the destination.
ExpectedSong(f, e) ==
    [t |-> "song", music_params |-> StoredParamsFor(f, "music"),
     img_params |-> StoredParamsFor(f, "img"), entry |-> NormEntry(e)]

\* The composite convert_file expects of the converted artifact.
ExpectedConv(f, sox_params) ==
    ConvParams(IF StoredParamsFor(f, "music") # None
               THEN StoredParamsFor(f, "music")
               ELSE Md5Params(f.file["music"].id), sox_params)

\* p has no sidecar, or was modified more than one second after its
\* sidecar's modification time.
Stale(f, p) == ~f.side[p].exists \/ f.file[p].mtime > f.side[p].mtime + 1

ImgOk(f) == ImgSize(f.file["img"].id)[1] >= MinImgWidth
            /\ ImgSize(f.file["img"].id)[2] >= MinImgHeight

ReachedConvert(r) == r \in {"built", "imgreject", "soxfail"}
ReachedImage(r) == r \in {"built", "imgreject"}

(***************************************************************************)
(* C1.  Idempotence: a build_one that follows a successful build_one with  *)
(* the same entry and settings, nothing having changed in between, returns *)
(* without error whatever force is, runs neither the transcoder nor the    *)
(* tag writer, and writes no file and no sidecar.                          *)
(***************************************************************************)
C1_Idempotence ==
    [][(/\ hist.kind = "clean"
        /\ last'.op = "build"
        /\ last'.entry = hist.entry
        /\ last'.sox = hist.sox)
       => (/\ last'.result = "noop"
           /\ fs' = fs
           /\ last'.eff = NoEff)]_vars

C1_Witness ==
    /\ last.op = "build" /\ last.result = "noop" /\ last.force
    /\ last.ctx = "clean" /\ last.entry = last.pentry
    /\ last.entry = Entry1

(***************************************************************************)
(* C2.  Change detection, as claimed: after a successful build, changing   *)
(* one tag field, or the content of the source audio, or the content of    *)
(* the source image, makes build_one without force fail with a Conflict.   *)
(***************************************************************************)
C2_Original ==
    [][(/\ last'.op = "build" /\ ~last'.force
        /\ fs.file["dest"].exists
        /\ \/ hist.kind = "clean" /\ Cardinality(DiffFields(last'.entry, hist.entry)) = 1
           \/ hist.kind \in {"mut_music", "mut_img"} /\ last'.entry = hist.entry)
       => last'.result = "conflict"]_vars

(***************************************************************************)
(* C2, amended.  The Conflict is raised when the change is one the         *)
(* fingerprints see: a tag field whose JSON-normalised value differs, or a *)
(* source file whose new modification time is more than one second later   *)
(* than its sidecar's.                                                     *)
(***************************************************************************)
C2_ChangeDetected ==
    [][(/\ last'.op = "build" /\ ~last'.force
        /\ fs.file["dest"].exists
        /\ \/ /\ hist.kind = "clean"
              /\ Cardinality(DiffFields(last'.entry, hist.entry)) = 1
              /\ NormEntry(last'.entry) # NormEntry(hist.entry)
           \/ /\ hist.kind = "mut_music" /\ last'.entry = hist.entry
              /\ Stale(fs, "music")
           \/ /\ hist.kind = "mut_img" /\ last'.entry = hist.entry
              /\ Stale(fs, "img"))
       => last'.result = "conflict"]_vars

C2_Witness ==
    /\ last.op = "build" /\ last.result = "conflict" /\ ~last.force
    /\ last.ctx = "mut_music" /\ last.entry = last.pentry
    /\ hist.kind = "mut_music"
    /\ fs.file["music"].mtime > fs.side["music"].mtime + 1

(***************************************************************************)
(* C3.  Never silently overwrite: when the destination exists, its stored  *)
(* fingerprint is not the expected one and force is not set, build_one     *)
(* fails and writes nothing: no file and no sidecar is created or changed. *)
(***************************************************************************)
C3_NeverOverwrite ==
    [][(/\ last'.op = "build" /\ ~last'.force
        /\ fs.file["dest"].exists
        /\ StoredParamsFor(fs, "dest") # ExpectedSong(fs, last'.entry))
       => (/\ last'.result = "conflict"
           /\ fs' = fs
           /\ last'.eff = NoEff)]_vars

C3_Witness ==
    /\ last.op = "build" /\ last.result = "conflict" /\ ~last.force
    /\ last.ctx = "del_dest"
    /\ fs.file["dest"].exists /\ ~fs.side["dest"].exists

(***************************************************************************)
(* C4.  Forced rebuild, as claimed: after a single mutation build_one with *)
(* force succeeds and changes the stored fingerprints of exactly the       *)
(* artifacts that depend on the mutated input (a tag field: the            *)
(* destination's only, and no transcoder run; the source audio: source,    *)
(* intermediate and destination; the source image: image and destination), *)
(* and a following build_one without force is a no-op.                     *)
(***************************************************************************)
ChangedSides == {p \in Paths : fs'.side[p] # fs.side[p]}

ThenNoop ==
    BuildOneResult(fs', last'.entry, last'.sox, FALSE, TRUE, now').result = "noop"

ForcedOutcome(affected, transcoded) ==
    /\ last'.result = "built"
    /\ ChangedSides = affected
    /\ last'.eff.wsides = affected
    /\ last'.eff.sox = transcoded
    /\ ThenNoop

ConvCurrent == StoredParamsFor(fs, "conv") = ExpectedConv(fs, last'.sox)

C5_Original ==
    \A p \in Paths :
        StoredParamsFor(fs, p) # None
        => fs.side[p].exists /\ fs.side[p].mtime > fs.file[p].mtime

(***************************************************************************)
(* C5, amended.  With its default tolerance stored_params_for returns the  *)
(* stored fingerprint exactly when a sidecar exists that is not more than  *)
(* one second older than the file; otherwise None.                         *)
(***************************************************************************)
C5_ReadFreshness ==
    \A p \in Paths :
        StoredParamsFor(fs, p) =
            IF fs.side[p].exists /\ fs.side[p].mtime >= fs.file[p].mtime - 1
            THEN fs.side[p].json
            ELSE None

C5_Witness ==
    /\ last.op = "build" /\ last.result = "noop"
    /\ last.ctx \in {"touch_music", "mut_music"}
    /\ fs.side["music"].exists
    /\ fs.side["music"].mtime = fs.file["music"].mtime

(***************************************************************************)
(* C6.  Store round trip: each sidecar written by a call is strictly later *)
(* than its file, and reading it back gives the JSON-normalised            *)
(* fingerprint that was written: a hash for a source file, {source hash,   *)
(* transcoder parameters} for the intermediate, and {audio fingerprint,    *)
(* image fingerprint, entry with its dates as strings} for the destination.*)
(***************************************************************************)
WrittenParams(p) ==
    CASE p = "music" -> Md5Params(fs.file["music"].id)
      [] p = "img" -> Md5Params(fs.file["img"].id)
      [] p = "conv" -> ConvParams(StoredParamsFor(fs, "music"), last.sox)
      [] OTHER -> ExpectedSong(fs, last.entry)

C6_RoundTrip ==
    \A p \in last.eff.wsides :
        /\ fs.side[p].exists
        /\ fs.side[p].mtime > fs.file[p].mtime
        /\ StoredParamsFor(fs, p) = WrittenParams(p)

C6_Witness ==
    /\ last.op = "build" /\ last.result = "built"
    /\ last.entry = Entry1
    /\ last.eff.wsides = Paths
    /\ StoredParamsFor(fs, "dest").entry.originaldate = Str("1994-04-01")

(***************************************************************************)
(* C7.  Fingerprint staleness, as claimed: once a source file's sidecar is *)
(* deleted, or the file is touched or rewritten with a newer modification  *)
(* time, the next build_one recomputes the file's fingerprint.             *)
(***************************************************************************)
SidecarGone(p) == hist.kind = "del_" \o p

Retimed(p) ==
    /\ hist.kind \in {"touch_" \o p, "mut_" \o p}
    /\ fs.side[p].exists
    /\ fs.file[p].mtime > fs.side[p].mtime - WriteTdelta

C7_Original ==
    [][\A p \in SrcPaths :
          (last'.op = "build" /\ (SidecarGone(p) \/ Retimed(p)))
          => p \in last'.eff.hashed]_vars

(***************************************************************************)
(* C7, amended.  When a source file has no sidecar, or was modified more   *)
(* than one second after its sidecar's modification time, its stored       *)
(* fingerprint reads as absent; the next build_one is then never a no-op,  *)
(* it recomputes the fingerprint (write_hash_for_fname) when it reaches    *)
(* the file's stage (convert_file for the audio, write_proc_image for the  *)
(* image), and it recomputes nothing when it stops at the Conflict.        *)
(***************************************************************************)
C7_Staleness ==
    [][\A p \in SrcPaths :
          (last'.op = "build" /\ Stale(fs, p))
          => /\ StoredParamsFor(fs, p) = None
             /\ last'.result # "noop"
             /\ (p = "music" /\ ReachedConvert(last'.result)) => p \in last'.eff.hashed
             /\ (p = "img" /\ ReachedImage(last'.result)) => p \in last'.eff.hashed
             /\ last'.result = "conflict" => last'.eff.hashed = {}
             /\ p \in last'.eff.hashed
                => StoredParamsFor(fs', p) = Md5Params(fs.file[p].id)]_vars

C7_Witness ==
    /\ last.op = "build" /\ last.result = "built"
    /\ last.ctx = "touch_music"
    /\ "music" \in last.eff.hashed

(***************************************************************************)
(* C8.  Fingerprint write is last, as claimed: a destination file left     *)
(* without a sidecar by a failed build is handled by the next build_one    *)
(* exactly as a destination that was never built.                          *)
(***************************************************************************)
NeverBuilt ==
    BuildOneResult([fs EXCEPT !.file["dest"] = NoFile], last'.entry, last'.sox,
                   last'.force, TRUE, now)

C8_Original ==
    [][(/\ last'.op = "build"
        /\ hist.kind = "broken"
        /\ fs.file["dest"].exists /\ ~fs.side["dest"].exists)
       => (/\ last'.result = NeverBuilt.result
           /\ fs' = NeverBuilt.fs)]_vars

(***************************************************************************)
(* C8, amended.  A destination file without a sidecar is never taken as up *)
(* to date: without force the next build_one fails with the Conflict and   *)
(* writes nothing (a destination never built would be built), and with     *)
(* force it is rebuilt exactly as a destination that was never built.      *)
(***************************************************************************)
C8_PartialOutput ==
    [][(/\ last'.op = "build"
        /\ fs.file["dest"].exists /\ ~fs.side["dest"].exists)
       => (/\ last'.result # "noop"
           /\ ~last'.force => (last'.result = "conflict" /\ fs' = fs)
           /\ last'.force => (/\ last'.result = NeverBuilt.result
                              /\ fs' = NeverBuilt.fs))]_vars

C8_Witness ==
    /\ last.op = "build" /\ last.result = "conflict" /\ ~last.force
    /\ last.ctx = "broken"
    /\ fs.file["dest"].exists /\ ~fs.side["dest"].exists
    /\ fs.file["dest"].tags = NoTags

(***************************************************************************)
(* C9.  Conversion gating: a build that reaches convert_file runs the      *)
(* transcoder exactly when the converted artifact's stored fingerprint is  *)
(* absent or differs from {source fingerprint, sox_params}; when they are  *)
(* equal the converted file and its sidecar are left as they are, and      *)
(* after a run the sidecar holds exactly the expected composite.           *)
(***************************************************************************)
C9_ConversionGating ==
    [][(last'.op = "build" /\ ReachedConvert(last'.result))
       => LET expected == ExpectedConv(fs, last'.sox)
          IN /\ last'.eff.sox <=> (StoredParamsFor(fs, "conv") # expected)
             /\ ~last'.eff.sox
                => /\ fs'.file["conv"] = fs.file["conv"]
                   /\ fs'.side["conv"] = fs.side["conv"]
                   /\ "conv" \notin (last'.eff.wfiles \cup last'.eff.wsides)
             /\ last'.eff.sox
                => /\ fs'.side["conv"].json = expected
                   /\ StoredParamsFor(fs', "conv") = expected
                   /\ fs'.file["conv"].exists
                   /\ fs'.file["conv"].id = fs.file["music"].id
                   /\ fs'.file["conv"].sox = last'.sox
                   /\ fs'.file["conv"].mtime = now]_vars

C9_Witness ==
    /\ last.op = "build" /\ last.result = "built" /\ last.force
    /\ ~last.eff.sox
    /\ last.ctx = "mut_img"

(***************************************************************************)
(* C10.  Transcoder runs, as claimed: over calls of convert_file and       *)
(* build_one with the source files unmodified, the transcoder runs at most *)
(* once for each (source content, parameter set) pair.                     *)
(***************************************************************************)
C10_Original == \A s \in SoxParams : runs[s] <= 1

(***************************************************************************)
(* C10, amended.  The converted path keeps the latest conversion only: a   *)
(* call that reaches convert_file with the source unmodified runs the      *)
(* transcoder exactly when the converted file is not already the           *)
(* conversion of that source with those parameters, so a pair is converted *)
(* once for each unbroken run of calls with it, and again after another    *)
(* parameter set was converted in between; a call that finds its pair      *)
(* converted reuses it, whichever entry it builds.                         *)
(***************************************************************************)
ConvHolds(sox_params) ==
    /\ fs.file["conv"].exists
    /\ fs.file["conv"].id = fs.file["music"].id
    /\ fs.file["conv"].sox = sox_params

C10_LatestConversionCached ==
    [][(\/ last'.op = "convert"
        \/ last'.op = "build" /\ ReachedConvert(last'.result))
       => (/\ last'.eff.sox <=> ~ConvHolds(last'.sox)
           /\ ~last'.eff.sox => runs' = runs
           /\ (last'.eff.sox /\ runs[last'.sox] < MaxRuns)
              => runs' = [runs EXCEPT ![last'.sox] = @ + 1])]_vars

C10_Witness ==
    /\ last.op = "build" /\ last.result = "built"
    /\ ~last.eff.sox
    /\ last.entry # last.pentry
    /\ runs[last.sox] = 1

(***************************************************************************)
(* write_proc_image called on its own, over source images of every size    *)
(* class, with and without a stored fingerprint.                           *)
(***************************************************************************)
GateImgIds == 1..10

ImageFs(id, t, hashed) ==
    LET f0 == [file |-> [p \in Paths |->
                            IF p = "music" THEN SrcFile(1, 0)
                            ELSE IF p = "img" THEN SrcFile(id, t)
                            ELSE NoFile],
               side |-> [p \in Paths |-> NoSide]]
    IN IF hashed THEN WriteHashForFname(f0, "img").fs ELSE f0

InitImage ==
    /\ \E id \in GateImgIds, t \in 0..MaxGap, hashed \in BOOLEAN :
          fs = ImageFs(id, t, hashed)
    /\ now = MaxGap
    /\ hist = NoHist
    /\ last = NoLast
    /\ ext = 0
    /\ runs = [s \in SoxParams |-> 0]
    /\ arg = None
    /\ res = None

WriteProcImageCall ==
    LET i == WriteProcImage(fs)
    IN /\ res = None
       /\ fs' = i.fs
       /\ res' = [op |-> "write_proc_image", raised |-> ~i.ok,
                  size |-> ImgSize(fs.file["img"].id), params |-> i.params,
                  eff |-> i.eff]
       /\ UNCHANGED <<now, hist, last, ext, runs, arg>>

NextImage == WriteProcImageCall

SpecImage == InitImage /\ [][NextImage]_vars

(***************************************************************************)
(* C11.  Image quality gate: write_proc_image raises for every image whose *)
(* width is below the minimum width or whose height is below the minimum   *)
(* height; an image it accepts is at least the minimum in both dimensions. *)
(***************************************************************************)
C11_QualityGate ==
    (res # None /\ res.op = "write_proc_image" /\ ~res.raised)
    => (res.size[1] >= MinImgWidth /\ res.size[2] >= MinImgHeight)

(***************************************************************************)
(* resize_img.  ratio = target_res / max(img.size) is a binary64 quotient  *)
(* and d * ratio a binary64 product, truncated by int().  The quotient of  *)
(* the integers t < m is q * 2^-s with q the integer nearest to t * 2^s / m *)
(* (ties to even) and s the exponent that puts q in [2^52, 2^53]; it is    *)
(* kept as t, m and the rounding remainder rho = t * 2^s - q * m, from     *)
(* which the truncated product is computed exactly.                        *)
(***************************************************************************)
MantissaBits == 52

MaxDim == 24

RECURSIVE Pow2(_)
Pow2(k) == IF k <= 0 THEN 1 ELSE 2 * Pow2(k - 1)

RECURSIVE ShiftMod(_, _, _)
\* (x * 2^s) mod md
ShiftMod(x, s, md) == IF s = 0 THEN x % md ELSE ShiftMod((2 * x) % md, s - 1, md)

RECURSIVE RatioExp(_, _, _)
\* The least n >= start with t * 2^n >= m: t / m lies in [2^-n, 2^(1-n)).
RatioExp(t, m, start) ==
    IF t * Pow2(start) >= m THEN start ELSE RatioExp(t, m, start + 1)

RECURSIVE FloorLog2(_)
FloorLog2(x) == IF x < 2 THEN 0 ELSE 1 + FloorLog2(x \div 2)

\* t * 2^s - q * m for the rounded quotient q of t / m.
RatioRem(t, m) ==
    LET n == RatioExp(t, m, 1)
        R == ShiftMod(t, n + MantissaBits, 2 * m)
        r == R % m
        odd == (R \div m) = 1
    IN IF 2 * r < m THEN r
       ELSE IF 2 * r > m THEN r - m
       ELSE IF odd THEN r - m ELSE r

\* int(d * (t / m)) for 1 <= d <= m and t < m.  The product is
\* d * t / m - d * rho / (m * 2^s); when d * t / m is not an integer the
\* error term cannot reach the next integer, and when it is an integer X the
\* product rounds to a value below X exactly when the error exceeds half
\* the spacing of the binary64 values just below X.
ScaleDim(d, t, m) ==
    LET n == RatioExp(t, m, 1)
        rho == RatioRem(t, m)
        X == (d * t) \div m
        k == FloorLog2(X)
    IN IF (d * t) % m # 0 \/ rho <= 0 THEN X
       ELSE IF X = Pow2(k)
       THEN (IF 2 * d * rho > m * Pow2(n + k - 1) THEN X - 1 ELSE X)
       ELSE (IF d * rho > m * Pow2(n + k - 1) THEN X - 1 ELSE X)

MaxOf(size) == IF size[1] >= size[2] THEN size[1] ELSE size[2]

ResizeImg(size, target_res) ==
    IF MaxOf(size) <= target_res THEN size
    ELSE <<ScaleDim(size[1], target_res, MaxOf(size)),
           ScaleDim(size[2], target_res, MaxOf(size))>>

ResizeSizes == ((1..MaxDim) \X (1..MaxDim))
               \cup {<<800, 600>>, <<1122, 561>>, <<2000, 1500>>, <<1024, 768>>}
ResizeTargets == {13, 1024}

InitResize ==
    /\ InitBuild
    /\ arg \in [size : ResizeSizes, target_res : ResizeTargets]
    /\ res = None

ResizeImgCall ==
    /\ res = None
    /\ res' = [op |-> "resize_img", size |-> ResizeImg(arg.size, arg.target_res)]
    /\ UNCHANGED <<fs, now, hist, last, ext, runs, arg>>

NextResize == ResizeImgCall

SpecResize == InitResize /\ [][NextResize]_vars

(***************************************************************************)
(* C12.  Resize law: resize_img returns the size unchanged when the        *)
(* longest edge is at most the target; otherwise the longest edge of the   *)
(* result equals the target, the other edge is within one pixel of the     *)
(* aspect-preserving value, and no edge is larger than it was.             *)
(***************************************************************************)
Abs(x) == IF x < 0 THEN -x ELSE x

C12_ResizeLaw ==
    (res # None /\ res.op = "resize_img")
    => LET m == MaxOf(arg.size)
           t == arg.target_res
       IN IF m <= t THEN res.size = arg.size
          ELSE /\ MaxOf(res.size) = t
               /\ \A i \in 1..2 :
                     /\ Abs(res.size[i] * m - arg.size[i] * t) <= m
                     /\ res.size[i] <= arg.size[i]

(***************************************************************************)
(* Output naming.  An entry is a function from the keys it gives to their  *)
(* values; a key the entry does not give is not in its domain.  File names *)
(* are sequences of characters, folder names strings.                      *)
(***************************************************************************)
MaxTrack == 12

Absent == -1

Field(k, v) == IF v = Absent THEN <<>> ELSE (k :> v)

NameEntry(dt, dn, tn) ==
    Field("disctotal", dt) @@ Field("discnumber", dn) @@ Field("tracknumber", tn)

NameEntries ==
    {NameEntry(dt, dn, tn) : dt \in {Absent, 0, 1, 2, 3}, dn \in {Absent, 1, 2},
                             tn \in {Absent, 100} \cup (0..MaxTrack)}

Folders == {"mass", "berliozfunebre"}

\* DEF_TRACK_CONFIG gives none of the keys out_fbaseroot_for reads.
Get(full, k) == IF k \in DOMAIN full THEN full[k] ELSE 0

\* f'{track_no:02d}' for a track number that is not negative
Fmt02d(n) == IF n < 10 THEN "0" \o ToString(n) ELSE ToString(n)

Raised(what) == [ok |-> FALSE, err |-> what]
Returned(v) == [ok |-> TRUE, val |-> v]

\* Mutant: the disc suffix is added whenever disctotal is given and not 0.
OutFbaserootForAnyTotal(fname, entry) ==
    IF Get(entry, "disctotal") # 0 /\ "discnumber" \notin DOMAIN entry
    THEN Raised("KeyError")
    ELSE IF "tracknumber" \notin DOMAIN entry THEN Raised("KeyError")
    ELSE Returned((IF Get(entry, "disctotal") # 0
                   THEN fname \o "_disc" \o ToString(entry["discnumber"])
                   ELSE fname)
                  \o "_side" \o Fmt02d(entry["tracknumber"]))

OutFbaserootFor(fname, entry) ==
    LET disc_total == Get(entry, "disctotal")
        disc == disc_total # 0 /\ disc_total > 1
    IN IF disc /\ "discnumber" \notin DOMAIN entry THEN Raised("KeyError")
       ELSE IF "tracknumber" \notin DOMAIN entry THEN Raised("KeyError")
       ELSE Returned((IF disc THEN fname \o "_disc" \o ToString(entry["discnumber"])
                      ELSE fname)
                     \o "_side" \o Fmt02d(entry["tracknumber"]))

(***************************************************************************)
(* guess_folder and the naming part of build_one.  FBASE2FOLDER is         *)
(* ([A-Za-z_]+)[\d], matched at the start of the name.                     *)
(***************************************************************************)
MaxLen == 4

AsciiLetters ==
    {"a", "b", "c", "d", "e", "f", "g", "h", "i", "j", "k", "l", "m", "n",
     "o", "p", "q", "r", "s", "t", "u", "v", "w", "x", "y", "z", "A", "B",
     "C", "D", "E", "F", "G", "H", "I", "J", "K", "L", "M", "N", "O", "P",
     "Q", "R", "S", "T", "U", "V", "W", "X", "Y", "Z"}

IsWordChar(c) == c \in AsciiLetters \cup {"_"}
IsDigit(c) == c \in {"0", "1", "2", "3", "4", "5", "6", "7", "8", "9"}

RECURSIVE RunLen(_)
\* The length of the longest prefix of [A-Za-z_] characters.
RunLen(name) ==
    IF name = <<>> \/ ~IsWordChar(Head(name)) THEN 0 ELSE 1 + RunLen(Tail(name))

RECURSIVE LStrip(_)
LStrip(name) ==
    IF name # <<>> /\ Head(name) = "_" THEN LStrip(Tail(name)) ELSE name

RECURSIVE RStrip(_)
RStrip(name) ==
    IF name # <<>> /\ name[Len(name)] = "_"
    THEN RStrip(SubSeq(name, 1, Len(name) - 1)) ELSE name

RECURSIVE Join(_)
Join(name) == IF name = <<>> THEN "" ELSE Head(name) \o Join(Tail(name))

\* Mutant: only the trailing underscores are stripped.
GuessFolderRStrip(fbase) ==
    LET n == RunLen(fbase)
    IN IF n = 0 \/ n = Len(fbase) \/ ~IsDigit(fbase[n + 1]) THEN None
       ELSE Str(Join(RStrip(SubSeq(fbase, 1, n))))

GuessFolder(fbase) ==
    LET n == RunLen(fbase)
    IN IF n = 0 \/ n = Len(fbase) \/ ~IsDigit(fbase[n + 1]) THEN None
       ELSE Str(Join(LStrip(RStrip(SubSeq(fbase, 1, n)))))

\* build_one up to the call of write_song, the source files found: the
\* folder, the output directory made, the output base name.
BuildOneNaming(fbase, folder_name, entry) ==
    LET folder == IF folder_name = None THEN GuessFolder(fbase) ELSE folder_name
    IN IF folder = None
       THEN [ok |-> FALSE, err |-> "TypeError", folder |-> None, made_dir |-> FALSE]
       ELSE LET o == OutFbaserootFor(folder.v, entry)
            IN IF ~o.ok
               THEN [ok |-> FALSE, err |-> o.err, folder |-> folder, made_dir |-> TRUE]
               ELSE [ok |-> TRUE, folder |-> folder, made_dir |-> TRUE,
                     out_fbase |-> o.val]

NameChars == {"a", "B", "_", "1", "."}

RECURSIVE SeqsUpTo(_, _)
SeqsUpTo(S, n) ==
    IF n = 0 THEN {<<>>}
    ELSE LET shorter == SeqsUpTo(S, n - 1)
         IN shorter \cup {Append(q, c) : q \in shorter, c \in S}

Berlioz == <<"b", "e", "r", "l", "i", "o", "z", "f", "u", "n", "e", "b", "r", "e", "1", ".", "w", "a", "v">>

FBases == SeqsUpTo(NameChars, MaxLen) \cup {Berlioz}

TestEntry == NameEntry(1, Absent, 1)

NamingArgs ==
    [op : {"out_fbaseroot_for"}, fname : Folders, entry : NameEntries]
    \cup [op : {"build_one"}, fbase : FBases, folder_name : {None, Str("mass")},
          entry : {TestEntry, NameEntry(2, 2, 3), NameEntry(2, Absent, 3)}]

InitNaming ==
    /\ InitBuild
    /\ arg \in NamingArgs
    /\ res = None

OutFbaserootForCall ==
    /\ res = None
    /\ arg.op = "out_fbaseroot_for"
    /\ res' = OutFbaserootFor(arg.fname, arg.entry)
    /\ UNCHANGED <<fs, now, hist, last, ext, runs, arg>>

BuildOneNamingCall ==
    /\ res = None
    /\ arg.op = "build_one"
    /\ res' = BuildOneNaming(arg.fbase, arg.folder_name, arg.entry)
    /\ UNCHANGED <<fs, now, hist, last, ext, runs, arg>>

NextNaming == OutFbaserootForCall \/ BuildOneNamingCall

SpecNaming == InitNaming /\ [][NextNaming]_vars

(***************************************************************************)
(* C13.  Output base name: for every entry that gives the fields the name  *)
(* is made of, out_fbaseroot_for(folder, entry) is folder, followed by     *)
(* '_disc<discnumber>' if and only if the entry declares disctotal > 1,    *)
(* followed by '_side' and the track number padded with zeros to two       *)
(* digits; the two examples of the specification come out as given.        *)
(***************************************************************************)
DeclaresDiscs(e) == "disctotal" \in DOMAIN e /\ e["disctotal"] > 1

TwoDigits(n) ==
    IF n < 100 THEN ToString(n \div 10) \o ToString(n % 10) ELSE ToString(n)

C13_OutputBaseName ==
    (res # None /\ arg.op = "out_fbaseroot_for"
     /\ "tracknumber" \in DOMAIN arg.entry
     /\ (DeclaresDiscs(arg.entry) => "discnumber" \in DOMAIN arg.entry))
    => /\ res.ok
       /\ res.val = arg.fname
                    \o (IF DeclaresDiscs(arg.entry)
                        THEN "_disc" \o ToString(arg.entry["discnumber"]) ELSE "")
                    \o "_side" \o TwoDigits(arg.entry["tracknumber"])
       /\ (arg.fname = "mass" /\ arg.entry = NameEntry(2, 2, 3))
          => res.val = "mass_disc2_side03"
       /\ (arg.fname = "berliozfunebre" /\ arg.entry = NameEntry(1, Absent, 1))
          => res.val = "berliozfunebre_side01"

C13_Witness ==
    /\ arg.op = "out_fbaseroot_for" /\ res # None
    /\ arg.fname = "mass" /\ arg.entry = NameEntry(2, 2, 3)
    /\ res = Returned("mass_disc2_side03")

(***************************************************************************)
(* C14.  Output folder derivation, as claimed: build_one uses the explicit *)
(* folder_name when it is not None; otherwise the leading run of letters   *)
(* and underscores that ends at the first digit of the file name, with its *)
(* trailing underscores stripped; when the name does not match the pattern *)
(* and no name is given the folder is None and the build fails without     *)
(* producing output.                                                       *)
(***************************************************************************)
Matches(fbase) ==
    \E n \in 1..(Len(fbase) - 1) :
        /\ \A i \in 1..n : IsWordChar(fbase[i])
        /\ IsDigit(fbase[n + 1])

BeforeFirstDigit(fbase) ==
    SubSeq(fbase, 1, (CHOOSE n \in 1..(Len(fbase) - 1) : IsDigit(fbase[n + 1])
                         /\ \A i \in 1..n : ~IsDigit(fbase[i])))

FolderRule(inferred(_)) ==
    (res # None /\ arg.op = "build_one")
    => IF arg.folder_name # None THEN res.folder = arg.folder_name
       ELSE IF Matches(arg.fbase)
       THEN /\ res.folder = Str(inferred(BeforeFirstDigit(arg.fbase)))
            /\ arg.fbase = Berlioz => res.folder = Str("berliozfunebre")
       ELSE ~res.ok /\ res.folder = None /\ ~res.made_dir

TrailingStripped(run) == Join(RStrip(run))

C14_Original == FolderRule(TrailingStripped)

(***************************************************************************)
(* C14, amended.  The inferred folder is the leading run with its leading  *)
(* underscores stripped as well as its trailing ones (it is empty when the *)
(* run is underscores only).                                               *)
(***************************************************************************)
BothEndsStripped(run) == Join(LStrip(RStrip(run)))

C14_FolderDerivation == FolderRule(BothEndsStripped)

C14_Witness ==
    /\ arg.op = "build_one" /\ res # None
    /\ arg.folder_name = None /\ arg.fbase = <<"_", "a", "_", "1">>
    /\ res.ok /\ res.folder = Str("a")

(***************************************************************************)
(* stored_params_for called on its own, over every combination of the      *)
(* tracked file and its sidecar being there or not.  op.getmtime(fname)    *)
(* raises FileNotFoundError when the tracked file is not there, which is   *)
(* reached when the sidecar is.                                            *)
(***************************************************************************)
StoredParamsForOutcome(f, p) ==
    IF ~f.side[p].exists THEN Returned(None)
    ELSE IF ~f.file[p].exists THEN Raised("FileNotFoundError")
    ELSE Returned(StoredParamsFor(f, p))

StoreFiles == {NoFile} \cup {SrcFile(1, t) : t \in 0..MaxGap}

StoreSides ==
    {NoSide} \cup [exists : {TRUE}, json : {Md5Params(1), Md5Params(2)},
                   mtime : 0..(MaxGap + 1)]

InitStore ==
    /\ \E p \in Paths, fl \in StoreFiles, sd \in StoreSides :
          /\ fs = [file |-> [q \in Paths |-> IF q = p THEN fl ELSE NoFile],
                   side |-> [q \in Paths |-> IF q = p THEN sd ELSE NoSide]]
          /\ arg = [op |-> "stored_params_for", fname |-> p]
    /\ now = MaxGap
    /\ hist = NoHist
    /\ last = NoLast
    /\ ext = 0
    /\ runs = [s \in SoxParams |-> 0]
    /\ res = None

StoredParamsForCall ==
    /\ res = None
    /\ res' = StoredParamsForOutcome(fs, arg.fname)
    /\ UNCHANGED <<fs, now, hist, last, ext, runs, arg>>

NextStore == StoredParamsForCall

SpecStore == InitStore /\ [][NextStore]_vars

(***************************************************************************)
(* C15.  Store reads never fail: for every combination of presence or      *)
(* absence of the tracked file and of its sidecar, stored_params_for       *)
(* returns the stored fingerprint or None and raises no error.             *)
(***************************************************************************)
C15_StoreReadsNeverFail ==
    (res # None /\ arg.op = "stored_params_for")
    => /\ res.ok
       /\ res.val \in {None, fs.side[arg.fname].json}

(***************************************************************************)
(* The build action of main: the loop over the track entries, each built   *)
(* by build_one, which starts by locating the source audio with find_file. *)
(* arg.tracks is the configuration in its order, each track with the set   *)
(* of directories that hold its source file; res is the position of the    *)
(* loop, the tracks built so far and the error that left main, if any.     *)
(***************************************************************************)
MaxTracks == 3

WavPaths == <<"wavs", "more">>

\* search_paths = ['.'] + paths
SearchPaths(paths) == <<".">> \o paths

FindFile(dirs, paths) ==
    LET sp == SearchPaths(paths)
        hits == {i \in 1..Len(sp) : sp[i] \in dirs}
    IN IF hits = {} THEN [ok |-> FALSE, err |-> "RuntimeError", listed |-> sp]
       ELSE Returned(sp[CHOOSE i \in hits : \A j \in hits : i <= j])

TrackDirs == SUBSET {".", "more"}

BatchTracks == UNION {[1..n -> TrackDirs] : n \in 1..MaxTracks}

Looping(pos) == [state |-> "loop", pos |-> pos, built |-> {}, failed |-> {},
                 err |-> None]

InitBatch ==
    /\ InitBuild
    /\ arg \in [op : {"build"}, tracks : BatchTracks]
    /\ res = Looping(1)

\* One pass of the loop body whose build_one returns.
MainBuildOne ==
    /\ res.state = "loop" /\ res.pos <= Len(arg.tracks)
    /\ FindFile(arg.tracks[res.pos], WavPaths).ok
    /\ res' = [res EXCEPT !.pos = @ + 1, !.built = @ \cup {res.pos}]
    /\ UNCHANGED <<fs, now, hist, last, ext, runs, arg>>

\* One pass whose build_one raises from find_file: nothing in main catches
\* the error, which ends the loop and main.
MainNotFound ==
    /\ res.state = "loop" /\ res.pos <= Len(arg.tracks)
    /\ ~FindFile(arg.tracks[res.pos], WavPaths).ok
    /\ res' = [res EXCEPT !.state = "raised", !.failed = @ \cup {res.pos},
                          !.err = FindFile(arg.tracks[res.pos], WavPaths)]
    /\ UNCHANGED <<fs, now, hist, last, ext, runs, arg>>

\* The loop is exhausted: main returns 0.
MainReturn ==
    /\ res.state = "loop" /\ res.pos > Len(arg.tracks)
    /\ res' = [res EXCEPT !.state = "returned"]
    /\ UNCHANGED <<fs, now, hist, last, ext, runs, arg>>

NextBatch == MainBuildOne \/ MainNotFound \/ MainReturn

SpecBatch == InitBatch /\ [][NextBatch]_vars

(***************************************************************************)
(* C16.  NotFound is per-track: a track whose source file is in none of    *)
(* the search paths fails with an error that lists the searched paths, and *)
(* the loop still builds every remaining track: when main is over, every   *)
(* track whose source file can be found has been built.                    *)
(***************************************************************************)
C16_NotFoundPerTrack ==
    (arg.op = "build" /\ res.state \in {"raised", "returned"})
    => /\ \A i \in 1..Len(arg.tracks) :
             FindFile(arg.tracks[i], WavPaths).ok => i \in res.built
       /\ \A i \in res.failed : res.err.listed = <<".", "wavs", "more">>

(***************************************************************************)
(* Metadata normalisation: MBInfo.  The raw record gives a title, a date   *)
(* and the credited artists; an artist is its name, sort name, type and    *)
(* disambiguation.  Texts that the code searches or strips are sequences   *)
(* of characters.                                                          *)
(***************************************************************************)
MaxArtists == 5

UpperCase ==
    <<"A", "B", "C", "D", "E", "F", "G", "H", "I", "J", "K", "L", "M", "N",
      "O", "P", "Q", "R", "S", "T", "U", "V", "W", "X", "Y", "Z">>

LowerCase ==
    <<"a", "b", "c", "d", "e", "f", "g", "h", "i", "j", "k", "l", "m", "n",
      "o", "p", "q", "r", "s", "t", "u", "v", "w", "x", "y", "z">>

\* str.lower, character by character
LowerChar(c) ==
    IF \E i \in 1..Len(UpperCase) : UpperCase[i] = c
    THEN LowerCase[CHOOSE i \in 1..Len(UpperCase) : UpperCase[i] = c]
    ELSE c

Lower(text) == [i \in 1..Len(text) |-> LowerChar(text[i])]

\* sub in text
Contains(sub, text) ==
    \E i \in 0..(Len(text) - Len(sub)) : SubSeq(text, i + 1, i + Len(sub)) = sub

RECURSIVE StripWs(_)
\* str.strip()
StripWs(text) ==
    IF text = <<>> THEN text
    ELSE IF Head(text) = " " THEN StripWs(Tail(text))
    ELSE IF text[Len(text)] = " " THEN StripWs(SubSeq(text, 1, Len(text) - 1))
    ELSE text

ComposerStr == <<"c", "o", "m", "p", "o", "s", "e", "r">>
ConductorStr == <<"c", "o", "n", "d", "u", "c", "t", "o", "r">>

Artist(name, sort, type, dis) ==
    [name |-> name, sort |-> sort, type |-> type, disambiguation |-> dis]

HectorBerlioz == Artist("Hector Berlioz", "Berlioz, Hector", "Person", ComposerStr)
ColinDavis ==
    Artist("Sir Colin Davis", "Davis, Colin, Sir", "Person",
           <<"E", "n", "g", "l", "i", "s", "h", " ", "c", "o", "n", "d", "u", "c", "t", "o", "r">>)
Monteverdi ==
    Artist("Claudio Monteverdi", "Monteverdi, Claudio", "Person",
           <<"I", "t", "a", "l", "i", "a", "n", " ", "C", "o", "m", "p", "o", "s", "e", "r">>)
DeNobel == Artist("Felix De Nobel", "De Nobel, Felix", "Person", ConductorStr)
Dubosc == Artist("Catherine Dubosc", "Dubosc, Catherine", "Person", <<>>)
LSO ==
    Artist("London Symphony Orchestra", "London Symphony Orchestra", "Orchestra", <<>>)
LSChorus ==
    Artist("London Symphony Chorus", "London Symphony Chorus", "Choir", <<>>)

ArtistPool == {HectorBerlioz, ColinDavis, Monteverdi, DeNobel, Dubosc, LSO, LSChorus}

\* get_artists(type=...), in the order of the credits
GetArtists(artists, type) == SelectSeq(artists, LAMBDA a : a.type = type)

Persons(artists) == GetArtists(artists, "Person")

Composers(artists) ==
    SelectSeq(Persons(artists), LAMBDA p : Contains(ComposerStr, Lower(p.disambiguation)))

Conductors(artists) ==
    SelectSeq(Persons(artists), LAMBDA p : Contains(ConductorStr, Lower(p.disambiguation)))

Orchestras(artists) == GetArtists(artists, "Orchestra")

Choirs(artists) == GetArtists(artists, "Choir") \o GetArtists(artists, "Chorus")

Range(q) == {q[i] : i \in 1..Len(q)}

\* Mutant: the performers are the unaffiliated persons only.
PerformersPersonsOnly(artists) ==
    LET not_performers == Composers(artists) \o Conductors(artists)
                          \o Choirs(artists) \o Orchestras(artists)
    IN SelectSeq(Persons(artists), LAMBDA p : p \notin Range(not_performers))

Performers(artists) ==
    LET not_performers == Composers(artists) \o Conductors(artists)
                          \o Choirs(artists) \o Orchestras(artists)
    IN SelectSeq(Persons(artists), LAMBDA p : p \notin Range(not_performers))
       \o Choirs(artists) \o Orchestras(artists)

\* The raw text or date of a record, and the values of a normalised one.
Raw(v) == [k |-> "raw", v |-> v]
List(v) == [k |-> "list", v |-> v]
IntVal(v) == [k |-> "int", v |-> v]

\* _get_value
GetValue(raw) == IF raw = None THEN None ELSE Str(Join(StripWs(raw.v)))

\* MBInfo.date: the parts of the date text split at '-', as integers
DateOf(raw) ==
    IF raw = None THEN None
    ELSE IF raw.v = <<>> THEN Str("")
    ELSE IF Len(raw.v) < 2 THEN None
    ELSE LET parts == IF Len(raw.v) = 2 THEN Append(raw.v, 1) ELSE raw.v
         IN Date(<<parts[1], parts[2], IF parts[3] = 0 THEN 1 ELSE parts[3]>>)

\* MBInfo.year: the year attribute of what date returns
YearOf(raw) ==
    LET d == DateOf(raw)
    IN IF d = None THEN Returned(None)
       ELSE IF d.k # "date" THEN Raised("AttributeError")
       ELSE Returned(IntVal(d.v[1]))

\* _single
Single(q) ==
    IF Len(q) = 0 THEN Returned(None)
    ELSE IF Len(q) # 1 THEN Raised("AssertionError")
    ELSE Returned(q[1])

\* {}.get('name') is None
NameOf(a) == IF a = None THEN None ELSE Str(a.name)
SortNameOf(a) == IF a = None THEN None ELSE Str(a.sort)

Names(q) == List([i \in 1..Len(q) |-> Str(q[i].name)])

StripVal(v) ==
    IF v = None THEN None
    ELSE IF v.k = "list"
    THEN LET out == SelectSeq(v.v, LAMBDA x : x # None)
         IN IF Len(out) = 0 THEN None ELSE List(out)
    ELSE v

StripNones(d) ==
    LET keep == {k \in DOMAIN d : StripVal(d[k]) # None}
    IN IF keep = {} THEN None ELSE [k \in keep |-> StripVal(d[k])]

\* Mutant: the single composer is taken with _single, as the conductor is.
AsConfigSingleComposer(in) ==
    IF ~Single(Composers(in.artists)).ok THEN Single(Composers(in.artists))
    ELSE IF ~Single(Conductors(in.artists)).ok THEN Single(Conductors(in.artists))
    ELSE IF ~Single(Orchestras(in.artists)).ok THEN Single(Orchestras(in.artists))
    ELSE IF ~YearOf(in.date).ok THEN YearOf(in.date)
    ELSE Returned(StripNones(
            [album |-> GetValue(in.title),
             artist |-> NameOf(Single(Composers(in.artists)).val),
             artistsort |-> SortNameOf(Single(Composers(in.artists)).val),
             albumartist |-> NameOf(Single(Composers(in.artists)).val),
             albumartistsort |-> SortNameOf(Single(Composers(in.artists)).val),
             composer |-> Names(Composers(in.artists)),
             conductor |-> NameOf(Single(Conductors(in.artists)).val),
             orchestra |-> NameOf(Single(Orchestras(in.artists)).val),
             performer |-> Names(Performers(in.artists)),
             title |-> GetValue(in.title),
             originaldate |-> DateOf(in.date),
             originalyear |-> YearOf(in.date).val,
             period |-> None,
             details |-> None]))

AsConfig(in) ==
    LET composers == Composers(in.artists)
        composer == IF Len(composers) # 0 THEN composers[1] ELSE None
        composer_name == NameOf(composer)
        conductor == Single(Conductors(in.artists))
        orchestra == Single(Orchestras(in.artists))
        year == YearOf(in.date)
    IN IF ~conductor.ok THEN conductor
       ELSE IF ~orchestra.ok THEN orchestra
       ELSE IF ~year.ok THEN year
       ELSE Returned(StripNones(
               [album |-> GetValue(in.title),
                artist |-> composer_name,
                artistsort |-> SortNameOf(composer),
                albumartist |-> composer_name,
                albumartistsort |-> SortNameOf(composer),
                composer |-> Names(composers),
                conductor |-> NameOf(conductor.val),
                orchestra |-> NameOf(orchestra.val),
                performer |-> Names(Performers(in.artists)),
                title |-> GetValue(in.title),
                originaldate |-> DateOf(in.date),
                originalyear |-> year.val,
                period |-> None,
                details |-> None]))

RECURSIVE DistinctSeqs(_, _)
\* The sequences of at most n different members of S.
DistinctSeqs(S, n) ==
    IF n = 0 THEN {<<>>}
    ELSE LET shorter == DistinctSeqs(S, n - 1)
         IN shorter \cup UNION {{Append(q, a) : a \in S \ Range(q)} : q \in shorter}

Credits == DistinctSeqs(ArtistPool, MaxArtists)

Titles == {None, Raw(<<>>), Raw(<<" ">>), Raw(<<"R", "e", "q", "u", "i", "e", "m">>), Raw(<<" ", "R", "e", "q", "u", "i", "e", "m", " ">>)}

Dates == {None, Raw(<<>>), Raw(<<1985>>), Raw(<<1985, 12>>), Raw(<<1985, 12, 3>>),
          Raw(<<1985, 12, 0>>)}

Funebre == <<HectorBerlioz, LSO, LSChorus, ColinDavis>>

Releases ==
    [title : {Raw(<<"R", "e", "q", "u", "i", "e", "m">>)}, date : {Raw(<<1985, 12, 3>>)}, artists : Credits]
    \cup [title : Titles, date : Dates,
          artists : {<<>>, Funebre, <<Dubosc>>, <<Monteverdi, HectorBerlioz>>}]

InitInfo ==
    /\ InitBuild
    /\ arg \in Releases
    /\ res = None

\* The role properties of MBInfo, read together.
RolesCall ==
    /\ res = None
    /\ res' = [op |-> "roles",
               composer |-> Range(Composers(arg.artists)),
               conductor |-> Range(Conductors(arg.artists)),
               orchestra |-> Range(Orchestras(arg.artists)),
               choir |-> Range(Choirs(arg.artists)),
               performer |-> Range(Performers(arg.artists))]
    /\ UNCHANGED <<fs, now, hist, last, ext, runs, arg>>

AsConfigCall ==
    /\ res = None
    /\ res' = [op |-> "as_config", out |-> AsConfig(arg)]
    /\ UNCHANGED <<fs, now, hist, last, ext, runs, arg>>

NextInfo == RolesCall \/ AsConfigCall

SpecInfo == InitInfo /\ [][NextInfo]_vars

(***************************************************************************)
(* What each artist of the pool is.                                        *)
(***************************************************************************)
Roles == {"composer", "conductor", "orchestra", "choir", "performer"}

IsA(a) ==
    IF a \in {HectorBerlioz, Monteverdi} THEN "composer"
    ELSE IF a \in {ColinDavis, DeNobel} THEN "conductor"
    ELSE IF a = LSO THEN "orchestra"
    ELSE IF a = LSChorus THEN "choir"
    ELSE "performer"

Count(artists, role) == Cardinality({i \in 1..Len(artists) : IsA(artists[i]) = role})

OneOfEach(artists) == Len(artists) = 5 /\ \A r \in Roles : Count(artists, r) = 1

RolesOf(a) == {r \in Roles : a \in res[r]}

(***************************************************************************)
(* C17.  Role partition completeness, as claimed: for a release with one   *)
(* composer, one conductor, one orchestra, one choir and one unaffiliated  *)
(* performer, the classification puts each artist in exactly one of the    *)
(* roles composer, conductor, orchestra, choir, performer.                 *)
(***************************************************************************)
C17_Original ==
    (res # None /\ res.op = "roles" /\ OneOfEach(arg.artists))
    => \A a \in Range(arg.artists) : RolesOf(a) = {IsA(a)}

(***************************************************************************)
(* C17, amended.  The composer, the conductor and the unaffiliated         *)
(* performer are each in exactly one role; the orchestra and the choir are *)
(* in their own role and also among the performers.  Every artist is in a  *)
(* role.                                                                   *)
(***************************************************************************)
C17_RolePartition ==
    (res # None /\ res.op = "roles" /\ OneOfEach(arg.artists))
    => \A a \in Range(arg.artists) :
          RolesOf(a) = IF IsA(a) \in {"orchestra", "choir"}
                       THEN {IsA(a), "performer"} ELSE {IsA(a)}

C17_Witness ==
    /\ res # None /\ res.op = "roles" /\ OneOfEach(arg.artists)
    /\ res.performer = {Dubosc, LSChorus, LSO}
    /\ res.orchestra = {LSO}

(***************************************************************************)
(* C18.  Exactly-one roles, as claimed: as_config raises when more than    *)
(* one artist is a composer, or more than one a conductor; when there is   *)
(* none, the fields of the role are omitted.                               *)
(***************************************************************************)
ComposerKeys == {"artist", "artistsort", "albumartist", "albumartistsort", "composer"}

Omitted(keys) ==
    res.out.ok => (res.out.val = None \/ keys \cap DOMAIN res.out.val = {})

NoneOmitted ==
    /\ Count(arg.artists, "composer") = 0 => Omitted(ComposerKeys)
    /\ Count(arg.artists, "conductor") = 0 => Omitted({"conductor"})

CreditedComposers ==
    SelectSeq(arg.artists, LAMBDA a : IsA(a) = "composer")

C19_NoEmptyFields ==
    (res # None /\ res.op = "as_config" /\ res.out.ok /\ res.out.val # None)
    => \A key \in DOMAIN res.out.val :
          /\ res.out.val[key] # None
          /\ res.out.val[key].k = "str" => res.out.val[key].v # ""
          /\ res.out.val[key].k = "list" => res.out.val[key].v # <<>>

(***************************************************************************)
(* fill_tracks with the MBInfo wrapper.  tracks maps the keys of the       *)
(* configuration to entries; from_release fetches the raw record of a      *)
(* release id.                                                             *)
(***************************************************************************)
ReleaseIdKey == "musicbrainz_release"
FilledFlagKey == "musicbrainz_filled"

RECURSIVE Fnmatch(_, _)
\* fnmatch for patterns of literal characters, ? and *
Fnmatch(name, pat) ==
    IF pat = <<>> THEN name = <<>>
    ELSE IF Head(pat) = "*"
    THEN Fnmatch(name, Tail(pat)) \/ (name # <<>> /\ Fnmatch(Tail(name), pat))
    ELSE /\ name # <<>>
         /\ Head(pat) = "?" \/ Head(pat) = Head(name)
         /\ Fnmatch(Tail(name), Tail(pat))

\* What the provider holds for a release id.
FromRelease(release_id) ==
    IF release_id = "r1"
    THEN [title |-> Raw(<<"R", "e", "q", "u", "i", "e", "m">>), date |-> Raw(<<1985, 12, 3>>),
          artists |-> Funebre]
    ELSE [title |-> Raw(<<"V", "e", "s", "p", "r", "o">>), date |-> None,
          artists |-> <<Monteverdi, DeNobel>>]

\* Mutant: an entry marked filled is filled again without force.
FillOneIgnoreFilled(track_info, key, track_spec, release_spec, force) ==
    LET own == IF ReleaseIdKey \in DOMAIN track_info
               THEN track_info[ReleaseIdKey] ELSE ""
        rel_id == IF release_spec = "" THEN own ELSE release_spec
    IN IF ~Fnmatch(key, track_spec) THEN track_info
       ELSE IF rel_id = "" THEN track_info
       ELSE (ReleaseIdKey :> rel_id) @@ (FilledFlagKey :> TRUE)
            @@ AsConfig(FromRelease(rel_id)).val @@ track_info

\* One pass of the loop of fill_tracks; release_spec None is "".
FillOne(track_info, key, track_spec, release_spec, force) ==
    LET own == IF ReleaseIdKey \in DOMAIN track_info
               THEN track_info[ReleaseIdKey] ELSE ""
        rel_id == IF release_spec = "" THEN own ELSE release_spec
    IN IF ~Fnmatch(key, track_spec) THEN track_info
       ELSE IF ~force /\ FilledFlagKey \in DOMAIN track_info
               /\ track_info[FilledFlagKey]
       THEN track_info
       ELSE IF rel_id = "" THEN track_info
       ELSE (ReleaseIdKey :> rel_id) @@ (FilledFlagKey :> TRUE)
            @@ AsConfig(FromRelease(rel_id)).val @@ track_info

\* new_tracks is a deep copy: the mapping passed in is what it was.
FillTracks(tracks, track_spec, release_spec, force) ==
    [new_tracks |-> [key \in DOMAIN tracks |->
                        FillOne(tracks[key], key, track_spec, release_spec, force)],
     tracks |-> tracks]

TrackKeys == {<<"a", "1">>, <<"b", "1">>}

TrackSpecs == {<<"*">>, <<"a", "*">>, <<"?", "1">>, <<"b", "1">>, <<"c", "*">>}

OptField(key, v, absent) == IF v = absent THEN <<>> ELSE (key :> v)

TrackInfos ==
    {(IF filled = "absent" THEN <<>> ELSE (FilledFlagKey :> (filled = "true")))
     @@ OptField(ReleaseIdKey, rel, "")
     @@ OptField("album", album, None) @@ ("tracknumber" :> 1) :
        filled \in {"absent", "true", "false"}, rel \in {"", "r1", "r2"},
        album \in {None, Str("Old")}}

InitFill ==
    /\ InitBuild
    /\ arg \in [op : {"fill_tracks"}, tracks : [TrackKeys -> TrackInfos],
                track_spec : TrackSpecs, release_spec : {"", "r1", "r2"},
                force : BOOLEAN]
    /\ res = None

FillTracksCall ==
    /\ res = None
    /\ res' = FillTracks(arg.tracks, arg.track_spec, arg.release_spec, arg.force)
    /\ UNCHANGED <<fs, now, hist, last, ext, runs, arg>>

NextFill == FillTracksCall

SpecFill == InitFill /\ [][NextFill]_vars

(***************************************************************************)
(* Vocabulary of C20: the keys a pattern of the model selects, an entry    *)
(* marked filled, and an entry updated from a release.                     *)
(***************************************************************************)
Selected(key, track_spec) ==
    \/ track_spec = <<"*">>
    \/ track_spec = <<"a", "*">> /\ key[1] = "a"
    \/ track_spec = <<"?", "1">> /\ Len(key) = 2 /\ key[2] = "1"
    \/ track_spec = key

MarkedFilled(track_info) ==
    FilledFlagKey \in DOMAIN track_info /\ track_info[FilledFlagKey]

UpdatedFrom(track_info, release_id) ==
    LET record == AsConfig(FromRelease(release_id)).val
    IN [k \in DOMAIN track_info \cup DOMAIN record \cup {ReleaseIdKey, FilledFlagKey} |->
           IF k = ReleaseIdKey THEN release_id
           ELSE IF k = FilledFlagKey THEN TRUE
           ELSE IF k \in DOMAIN record THEN record[k]
           ELSE track_info[k]]

SecondFillChangesNothing ==
    /\ res.tracks = arg.tracks
    /\ FillTracks(res.new_tracks, arg.track_spec, arg.release_spec, FALSE).new_tracks
       = res.new_tracks

(***************************************************************************)
(* C20.  Batch fill, as claimed: exactly the entries whose key matches     *)
(* track_spec and that are not marked filled (all matching entries with    *)
(* force) are updated with the normalised record, the release id and the   *)
(* filled flag; every other entry and the mapping passed in are unchanged, *)
(* and a second fill_tracks without force changes nothing.                 *)
(***************************************************************************)
C20_Original ==
    (res # None /\ arg.op = "fill_tracks")
    => /\ \A key \in DOMAIN arg.tracks :
             IF Selected(key, arg.track_spec)
                /\ (arg.force \/ ~MarkedFilled(arg.tracks[key]))
             THEN \E release_id \in {"r1", "r2"} :
                     res.new_tracks[key] = UpdatedFrom(arg.tracks[key], release_id)
             ELSE res.new_tracks[key] = arg.tracks[key]
       /\ SecondFillChangesNothing

(***************************************************************************)
(* C20, amended.  An entry is updated only if a release id is at hand for  *)
(* it: release_spec when it is given, otherwise the release id the entry   *)
(* gives itself; a matching entry with neither is left unchanged.          *)
(***************************************************************************)
ReleaseFor(track_info) ==
    IF arg.release_spec # "" THEN arg.release_spec
    ELSE IF ReleaseIdKey \in DOMAIN track_info THEN track_info[ReleaseIdKey]
    ELSE ""

C20_BatchFill ==
    (res # None /\ arg.op = "fill_tracks")
    => /\ \A key \in DOMAIN arg.tracks :
             IF /\ Selected(key, arg.track_spec)
                /\ (arg.force \/ ~MarkedFilled(arg.tracks[key]))
                /\ ReleaseFor(arg.tracks[key]) # ""
             THEN res.new_tracks[key]
                  = UpdatedFrom(arg.tracks[key], ReleaseFor(arg.tracks[key]))
             ELSE res.new_tracks[key] = arg.tracks[key]
       /\ SecondFillChangesNothing

C20_Witness ==
    /\ res # None /\ arg.op = "fill_tracks"
    /\ arg.track_spec = <<"a", "*">> /\ arg.release_spec = "" /\ ~arg.force
    /\ ~MarkedFilled(arg.tracks[<<"a", "1">>])
    /\ MarkedFilled(res.new_tracks[<<"a", "1">>])
    /\ res.new_tracks[<<"a", "1">>]["album"] = Str("Vespro")
    /\ res.new_tracks[<<"b", "1">>] = arg.tracks[<<"b", "1">>]

(***************************************************************************)
(* C21.  Deleted sidecars: after a successful build, once the fingerprint  *)
(* sidecar of the source audio, of the source image or of the destination  *)
(* is deleted, build_one without force raises the Conflict (the            *)
(* destination exists, the expected and the stored fingerprint differ) and *)
(* writes nothing; a following build_one with force succeeds, the source   *)
(* image being one that passes the size check, and the build_one without   *)
(* force after that is a no-op.                                            *)
(***************************************************************************)
DeletedSidecar == hist.kind \in {"del_music", "del_img", "del_dest"}

C21_DeletedSidecar ==
    [][/\ (last'.op = "build" /\ ~last'.force /\ DeletedSidecar)
          => (/\ last'.result = "conflict"
              /\ fs.file["dest"].exists
              /\ ~SameParamsFor(fs, ExpectedSong(fs, last'.entry), "dest")
              /\ fs' = fs
              /\ hist' = hist)
       /\ (/\ last'.op = "build" /\ last'.force /\ DeletedSidecar
           /\ last.op = "build" /\ last.result = "conflict"
           /\ ImgOk(fs))
          => (/\ last'.result = "built"
              /\ hist'.kind = "clean"
              /\ ThenNoop)
       /\ (/\ last'.op = "build" /\ ~last'.force
           /\ last.op = "build" /\ last.force /\ last.result = "built"
           /\ last.ctx \in {"del_music", "del_img", "del_dest"}
           /\ last'.entry = last.entry /\ last'.sox = last.sox)
          => (/\ last'.result = "noop"
              /\ fs' = fs
              /\ last'.eff = NoEff)]_vars

C21_Witness ==
    /\ last.op = "build" /\ last.force /\ last.result = "built"
    /\ last.ctx = "del_img"
    /\ "img" \in last.eff.hashed
    /\ StoredParamsFor(fs, "img") = Md5Params(fs.file["img"].id)
    /\ hist.kind = "clean"

(***************************************************************************)
(* C22.  Image stage gating, as claimed: the image is opened, checked,     *)
(* resized and re-encoded only when its stored fingerprint is stale or     *)
(* absent; a build that reaches the image stage with a current stored      *)
(* fingerprint does none of it.                                            *)
(***************************************************************************)
C22_Original ==
    [][(last'.op = "build" /\ ReachedImage(last'.result))
       => /\ (last'.eff.opened \/ last'.eff.encoded) => StoredParamsFor(fs, "img") = None
          /\ StoredParamsFor(fs, "img") # None
             => (~last'.eff.opened /\ ~last'.eff.encoded)]_vars

(***************************************************************************)
(* C22, amended.  Only the hashing of the image is gated by its stored     *)
(* fingerprint: a build that reaches the image stage recomputes the md5    *)
(* and rewrites the image's sidecar exactly when the stored fingerprint    *)
(* reads as absent, and it opens and size-checks the image whatever the    *)
(* stored fingerprint is, raising for an image below the minimum and       *)
(* otherwise resizing, re-encoding and embedding the image as the file     *)
(* holds it now.                                                           *)
(***************************************************************************)
C22_HashGatedOnly ==
    [][(last'.op = "build" /\ ReachedImage(last'.result))
       => LET size == ImgSize(fs.file["img"].id)
              low == TupleLess(size, <<MinImgWidth, MinImgHeight>>)
          IN /\ "img" \in last'.eff.hashed <=> StoredParamsFor(fs, "img") = None
             /\ "img" \in last'.eff.wsides <=> StoredParamsFor(fs, "img") = None
             /\ StoredParamsFor(fs, "img") # None => fs'.side["img"] = fs.side["img"]
             /\ last'.eff.opened
             /\ last'.eff.encoded <=> ~low
             /\ last'.result = "imgreject" <=> low
             /\ last'.result = "built"
                => fs'.file["dest"].tags.img = fs.file["img"].id]_vars

C22_Witness ==
    /\ last.op = "build" /\ last.result = "built" /\ last.force
    /\ last.ctx = "mut_img"
    /\ "img" \notin last.eff.hashed
    /\ last.eff.opened /\ last.eff.encoded
    /\ StoredParamsFor(fs, "img") = Md5Params(1)
    /\ fs.file["img"].id = 2
    /\ fs.file["dest"].tags.img = 2

(***************************************************************************)
(* strip_nones over nested values.  A dict is the sequence of its          *)
(* <<key, value>> items in insertion order, a list and a tuple the         *)
(* sequence of their elements; any other value is a leaf.                  *)
(***************************************************************************)
MaxNodes == 5

Tuple(v) == [k |-> "tuple", v |-> v]
Dict(v) == [k |-> "dict", v |-> v]

IsDict(val) == val # None /\ val.k = "dict"
IsSeq(val) == val # None /\ val.k \in {"list", "tuple"}

\* Mutant: None is removed from the container itself only, not from the
\* containers inside it.
StripNonesShallow(val) ==
    IF IsDict(val)
    THEN LET out == SelectSeq(val.v, LAMBDA kv : kv[2] # None)
         IN IF Len(out) # 0 THEN Dict(out) ELSE None
    ELSE IF IsSeq(val)
    THEN LET out == SelectSeq(val.v, LAMBDA s : s # None)
         IN IF Len(out) # 0 THEN [k |-> val.k, v |-> out] ELSE None
    ELSE val

RECURSIVE StripNonesRec(_)
StripNonesRec(val) ==
    IF IsDict(val)
    THEN LET items == [i \in 1..Len(val.v) |->
                          <<val.v[i][1], StripNonesRec(val.v[i][2])>>]
             out == SelectSeq(items, LAMBDA kv : kv[2] # None)
         IN IF Len(out) # 0 THEN Dict(out) ELSE None
    ELSE IF IsSeq(val)
    THEN LET items == [i \in 1..Len(val.v) |-> StripNonesRec(val.v[i])]
             out == SelectSeq(items, LAMBDA s : s # None)
         IN IF Len(out) # 0 THEN [k |-> val.k, v |-> out] ELSE None
    ELSE val

\* The values of at most MaxNodes nodes: leaves None and 0, and dicts,
\* lists and tuples of such values; the i-th key of a dict is str(i).
Leaves == {None, IntVal(0)}
Kinds == {"dict", "list", "tuple"}

Container(kind, q) ==
    IF kind = "dict" THEN Dict([i \in 1..Len(q) |-> <<ToString(i), q[i]>>])
    ELSE [k |-> kind, v |-> q]

RECURSIVE Trees(_), Forests(_)
Trees(n) ==
    IF n = 1 THEN Leaves \cup {Container(kind, <<>>) : kind \in Kinds}
    ELSE {Container(kind, q) : kind \in Kinds, q \in Forests(n - 1)}

Forests(n) ==
    IF n = 0 THEN {<<>>}
    ELSE UNION {{<<t>> \o q : t \in Trees(i), q \in Forests(n - i)} : i \in 1..n}

\* The containers of n nodes and the given kind whose first item has i nodes.
TreesFrom(n, kind, i) ==
    {Container(kind, <<t>> \o q) : t \in Trees(i), q \in Forests(n - 1 - i)}

InitStrip ==
    /\ InitBuild
    /\ \/ arg \in Trees(1)
       \/ \E n \in 2..MaxNodes, kind \in Kinds :
             \E i \in 1..(n - 1) : arg \in TreesFrom(n, kind, i)
    /\ res = None

StripNonesCall ==
    /\ res = None
    /\ res' = [op |-> "strip_nones", val |-> StripNonesRec(arg)]
    /\ UNCHANGED <<fs, now, hist, last, ext, runs, arg>>

NextStrip == StripNonesCall

SpecStrip == InitStrip /\ [][NextStrip]_vars

(***************************************************************************)
(* C23.  strip_nones(x) is x without every None and without every dict,    *)
(* list or tuple that becomes empty, at every depth, the container types,  *)
(* the keys and the order of what remains being kept; it is None when      *)
(* nothing remains and x itself when x is not a container; the result      *)
(* holds no None and no empty container at any depth, and strip_nones of   *)
(* the result is the result.                                               *)
(***************************************************************************)
Children(val) ==
    IF IsDict(val) THEN [i \in 1..Len(val.v) |-> val.v[i][2]]
    ELSE IF IsSeq(val) THEN val.v
    ELSE <<>>

\* val is None, or a container of which nothing remains.
RECURSIVE Vanishes(_)
Vanishes(val) ==
    \/ val = None
    \/ /\ IsDict(val) \/ IsSeq(val)
       /\ \A i \in 1..Len(Children(val)) : Vanishes(Children(val)[i])

\* val with the items that vanish taken out, at every depth.
RECURSIVE Remainder(_)
Remainder(val) ==
    IF IsDict(val)
    THEN LET kept == SelectSeq(val.v, LAMBDA kv : ~Vanishes(kv[2]))
         IN Dict([i \in 1..Len(kept) |-> <<kept[i][1], Remainder(kept[i][2])>>])
    ELSE IF IsSeq(val)
    THEN LET kept == SelectSeq(val.v, LAMBDA s : ~Vanishes(s))
         IN [k |-> val.k, v |-> [i \in 1..Len(kept) |-> Remainder(kept[i])]]
    ELSE val

\* val holds no None and no empty container, at any depth.
RECURSIVE Dense(_)
Dense(val) ==
    /\ val # None
    /\ (IsDict(val) \/ IsSeq(val))
       => /\ Len(Children(val)) > 0
          /\ \A i \in 1..Len(Children(val)) : Dense(Children(val)[i])

MinImgSizes == {<<MinImgWidth, MinImgHeight>>, <<1000, 700>>}
OutDims == {1024, 512}
Settings == [sox_params : SoxParams, min_img_size : MinImgSizes, out_dim : OutDims]
DefaultSettings ==
    [sox_params |-> "p1", min_img_size |-> <<MinImgWidth, MinImgHeight>>,
     out_dim |-> 1024]

\* Mutant: the settings are part of the expected fingerprint.
ExpParamsWithSettings(f, entry, settings) ==
    [t |-> "song", music_params |-> StoredParamsFor(f, "music"),
     img_params |-> StoredParamsFor(f, "img"), entry |-> entry,
     settings |-> settings]

ExpParams(f, entry, settings) ==
    SongParams(StoredParamsFor(f, "music"), StoredParamsFor(f, "img"), entry)

WriteProcImageWith(f, min_img_size, out_dim) ==
    LET sp == StoredParamsFor(f, "img")
        miss == (sp = None)
        h == IF miss THEN WriteHashForFname(f, "img") ELSE [fs |-> f, params |-> sp]
        ok == ~TupleLess(ImgSize(f.file["img"].id), min_img_size)
        e1 == [NoEff EXCEPT !.hashed = IF miss THEN {"img"} ELSE {},
                            !.wsides = IF miss THEN {"img"} ELSE {},
                            !.opened = TRUE, !.encoded = ok]
    IN [ok |-> ok, fs |-> h.fs, params |-> h.params, eff |-> e1,
        data |-> [id |-> f.file["img"].id, out_dim |-> out_dim]]

WriteSongWith(f, entry, settings, force, soxOk, t) ==
    LET exp == ExpParams(f, entry, settings)
    IN IF SameParamsFor(f, exp, "dest")
       THEN [result |-> "noop", fs |-> f, eff |-> NoEff]
       ELSE IF MustNotOverwrite(f, force)
       THEN [result |-> "conflict", fs |-> f, eff |-> NoEff]
       ELSE LET c == WriteConvertedFile(f, settings.sox_params, soxOk, t)
            IN IF ~c.ok
               THEN [result |-> "soxfail", fs |-> c.fs, eff |-> c.eff]
               ELSE LET mp == StoredParamsFor(c.fs, "music")
                        i == WriteProcImageWith(c.fs, settings.min_img_size,
                                                settings.out_dim)
                        e2 == JoinEff(c.eff, i.eff)
                    IN IF ~i.ok
                       THEN [result |-> "imgreject", fs |-> i.fs, eff |-> e2]
                       ELSE LET f3 == WriteTags(i.fs, entry, i.data, t)
                                f4 == WriteParamsFor(
                                         f3, [exp EXCEPT !.music_params = mp,
                                                         !.img_params = i.params],
                                         "dest")
                            IN [result |-> "built", fs |-> f4,
                                eff |-> [e2 EXCEPT !.tagged = TRUE,
                                                   !.wsides = @ \cup {"dest"}]]

InitSettings == InitBuild /\ arg = DefaultSettings /\ res = None

BuildOneWith(entry, force) ==
    LET r == WriteSongWith(fs, entry, arg, force, TRUE, now)
    IN /\ fs' = r.fs
       /\ last' = [op |-> "build", entry |-> entry, sox |-> arg.sox_params,
                   force |-> force, result |-> r.result, eff |-> r.eff,
                   ctx |-> hist.kind, pentry |-> hist.entry]
       /\ hist' = IF Success(r.result)
                  THEN [kind |-> "clean", entry |-> entry, sox |-> arg.sox_params]
                  ELSE IF r.result = "conflict" THEN hist
                  ELSE [NoHist EXCEPT !.kind = "broken"]
       /\ UNCHANGED <<now, ext, runs, arg, res>>

\* The settings section of the configuration file is edited.
ChangeSettings(s) ==
    /\ s # arg
    /\ arg' = s
    /\ hist' = IF hist.kind \in {"clean", "settings"}
               THEN [hist EXCEPT !.kind = "settings"]
               ELSE ExtHist("settings")
    /\ last' = [NoLast EXCEPT !.op = "ext"]
    /\ UNCHANGED <<fs, now, ext, runs, res>>

NextSettings ==
    \/ \E e \in Entries, force \in BOOLEAN : BuildOneWith(e, force)
    \/ \E s \in Settings : ChangeSettings(s)
    \/ \E id \in ImgIds, dt \in {0, MaxGap} : ModifyFile("img", id, dt)

SpecSettings == InitSettings /\ [][NextSettings]_vars

(***************************************************************************)
(* C24.  Settings are not fingerprinted: the expected fingerprint of the   *)
(* destination is made of the stored audio fingerprint, the stored image   *)
(* fingerprint and the tag entry, whatever the settings; after a           *)
(* successful build, when only settings (sox_params, out_dim,              *)
(* min_img_size) have changed, build_one with the same entry is a no-op:   *)
(* nothing is written, the transcoder does not run, convert_file is not    *)
(* reached.                                                                *)
(***************************************************************************)
C24_SettingsNotFingerprinted ==
    [][(last'.op = "build" /\ hist.kind = "settings" /\ last'.entry = hist.entry)
       => (/\ \A s \in Settings :
                 ExpParams(fs, last'.entry, s) = ExpParams(fs, last'.entry, arg)
           /\ last'.result = "noop"
           /\ ~ReachedConvert(last'.result)
           /\ fs' = fs
           /\ last'.eff = NoEff)]_vars

C24_Witness ==
    /\ last.op = "build" /\ last.result = "noop" /\ ~last.force
    /\ last.ctx = "settings"
    /\ fs.file["dest"].exists
    /\ fs.file["dest"].sox # arg.sox_params
    /\ fs.file["dest"].tags.img.out_dim # arg.out_dim
    /\ TupleLess(ImgSize(fs.file["img"].id), arg.min_img_size)

(***************************************************************************)
(* convert_file over two source files of the same base name, in different  *)
(* directories, that write_converted_file maps to one converted path.      *)
(* Source "a" and its sidecar are fs's "music"; source "b" and its sidecar *)
(* are held in arg.  res describes the last call of convert_file.          *)
(***************************************************************************)
SourceView(which) ==
    IF which = "a" THEN fs
    ELSE [fs EXCEPT !.file["music"] = arg.file, !.side["music"] = arg.side]

InitAlias ==
    /\ InitBuild
    /\ \E id \in MusicIds : arg = [file |-> SrcFile(id, 0), side |-> NoSide]
    /\ res = None

ConvertSource(which, sox_params) ==
    LET v == SourceView(which)
        c == ConvertFile(v, sox_params, TRUE, now)
    IN /\ fs' = IF which = "a" THEN c.fs
                ELSE [c.fs EXCEPT !.file["music"] = fs.file["music"],
                                  !.side["music"] = fs.side["music"]]
       /\ arg' = IF which = "a" THEN arg
                 ELSE [file |-> c.fs.file["music"], side |-> c.fs.side["music"]]
       /\ res' = [op |-> "convert_file", src |-> which,
                  in_id |-> v.file["music"].id,
                  in_params |-> c.params.in_params,
                  sox_params |-> sox_params,
                  ran |-> c.eff.sox]
       /\ UNCHANGED <<now, hist, last, ext, runs>>

\* A source file is rewritten, or touched, dt seconds from now.  hist.kind
\* becomes "unseen" once a rewrite has left the store returning, for the
\* file, a fingerprint that is not the hash of its content.
RewriteSource(which, id, dt) ==
    LET v == SourceView(which)
        w == [v EXCEPT !.file["music"].id = id, !.file["music"].mtime = now + dt]
        unseen == /\ StoredParamsFor(w, "music") # None
                  /\ StoredParamsFor(w, "music") # Md5Params(id)
    IN /\ ext < MaxExt
       /\ now' = now + dt
       /\ fs' = IF which = "a" THEN w ELSE fs
       /\ arg' = IF which = "a" THEN arg ELSE [arg EXCEPT !.file = w.file["music"]]
       /\ hist' = IF unseen THEN [hist EXCEPT !.kind = "unseen"] ELSE hist
       /\ ext' = ext + 1
       /\ UNCHANGED <<last, runs, res>>

NextAlias ==
    \/ \E which \in {"a", "b"}, s \in SoxParams : ConvertSource(which, s)
    \/ \E which \in {"a", "b"}, id \in MusicIds, dt \in 0..MaxGap :
          RewriteSource(which, id, dt)

SpecAlias == InitAlias /\ [][NextAlias]_vars

(***************************************************************************)
(* C25.  Conversion cache soundness, as claimed: whenever convert_file     *)
(* returns without running the transcoder, the file at the converted path  *)
(* was produced by a transcoder run on a source of the same content as the *)
(* source file given, with the same sox_params, also when two sources map  *)
(* to the same converted path.                                             *)
(***************************************************************************)
CacheHit == res # None /\ res.op = "convert_file" /\ ~res.ran

C25_Original ==
    CacheHit
    => /\ fs.file["conv"].exists
       /\ fs.file["conv"].id = res.in_id
       /\ fs.file["conv"].sox = res.sox_params

(***************************************************************************)
(* C25, amended.  Whenever convert_file returns without running the        *)
(* transcoder, the file at the converted path was produced by a transcoder *)
(* run with the same sox_params, and, provided no source file of that      *)
(* converted path has been rewritten with a modification time at most one  *)
(* second later than its sidecar's, on a source of the same content as the *)
(* source file given, also when two sources map to the same converted      *)
(* path.                                                                   *)
(***************************************************************************)
C25_CacheSoundness ==
    CacheHit
    => /\ fs.file["conv"].exists
       /\ fs.file["conv"].sox = res.sox_params
       /\ StoredParamsFor(fs, "conv") = ConvParams(res.in_params, res.sox_params)
       /\ hist.kind # "unseen"
          => /\ res.in_params = Md5Params(res.in_id)
             /\ fs.file["conv"].id = res.in_id

C25_Witness ==
    /\ CacheHit
    /\ res.src = "b"
    /\ arg.file.id = 2 /\ fs.file["music"].id = 1
    /\ fs.side["music"].exists
    /\ fs.file["conv"].id = 2
    /\ res.in_params = Md5Params(2)

(***************************************************************************)
(* write_song step by step.  arg is the call in progress: its position pc, *)
(* its arguments, the file system it started from, the steps it has done   *)
(* and the fingerprints and picture it holds; res is the outcome of the    *)
(* last call that returned or raised.  The transcoder may fail.            *)
(***************************************************************************)
Idle == [pc |-> "idle"]

\* Mutant: the destination's fingerprint is written before the tags.
NextPcParamsFirst(pc) ==
    CASE pc = "convert" -> "copy"
      [] pc = "copy" -> "image"
      [] pc = "image" -> "params"
      [] pc = "params" -> "tags"
      [] OTHER -> "idle"

\* The statements of write_song after the checks, in their order.
NextPc(pc) ==
    CASE pc = "convert" -> "copy"
      [] pc = "copy" -> "image"
      [] pc = "image" -> "tags"
      [] pc = "tags" -> "params"
      [] OTHER -> "idle"

Outcome(result, done) == [op |-> "write_song", result |-> result, done |-> done]

\* The step at a.pc is done: the call moves on, or returns.
Proceed(a) ==
    /\ arg' = IF NextPc(a.pc) = "idle" THEN Idle
              ELSE [a EXCEPT !.pc = NextPc(a.pc), !.done = Append(a.done, a.pc)]
    /\ res' = IF NextPc(a.pc) = "idle" THEN Outcome("built", Append(a.done, a.pc))
              ELSE res

\* The step at arg.pc raises.
Abort(result) ==
    /\ arg' = Idle
    /\ res' = Outcome(result, arg.done)

InitSteps == InitBuild /\ arg = Idle /\ res = None

CallWriteSong(entry, sox_params, force, soxOk) ==
    LET exp == SongParams(StoredParamsFor(fs, "music"), StoredParamsFor(fs, "img"),
                          entry)
    IN /\ arg.pc = "idle"
       /\ IF SameParamsFor(fs, exp, "dest")
          THEN arg' = arg /\ res' = Outcome("noop", <<>>)
          ELSE IF MustNotOverwrite(fs, force)
          THEN arg' = arg /\ res' = Outcome("conflict", <<>>)
          ELSE /\ arg' = [pc |-> "convert", entry |-> entry, sox |-> sox_params,
                          force |-> force, soxOk |-> soxOk, start |-> fs,
                          done |-> <<>>, mp |-> None, ip |-> None, data |-> 0]
               /\ res' = None
       /\ UNCHANGED <<fs, now, hist, last, ext, runs>>

StepConvert ==
    LET c == ConvertFile(fs, arg.sox, arg.soxOk, now)
    IN /\ arg.pc = "convert"
       /\ fs' = c.fs
       /\ IF c.ok THEN Proceed(arg) ELSE Abort("soxfail")
       /\ UNCHANGED <<now, hist, last, ext, runs>>

StepCopy ==
    /\ arg.pc = "copy"
    /\ fs' = [fs EXCEPT !.file["dest"] = [fs.file["conv"] EXCEPT !.mtime = now]]
    /\ Proceed([arg EXCEPT !.mp = StoredParamsFor(fs, "music")])
    /\ UNCHANGED <<now, hist, last, ext, runs>>

StepImage ==
    LET i == WriteProcImage(fs)
    IN /\ arg.pc = "image"
       /\ fs' = i.fs
       /\ IF i.ok THEN Proceed([arg EXCEPT !.ip = i.params, !.data = i.data])
          ELSE Abort("imgreject")
       /\ UNCHANGED <<now, hist, last, ext, runs>>

StepTags ==
    /\ arg.pc = "tags"
    /\ fs' = WriteTags(fs, arg.entry, arg.data, now)
    /\ Proceed(arg)
    /\ UNCHANGED <<now, hist, last, ext, runs>>

StepParams ==
    /\ arg.pc = "params"
    /\ fs' = WriteParamsFor(fs, SongParams(arg.mp, arg.ip, arg.entry), "dest")
    /\ Proceed(arg)
    /\ UNCHANGED <<now, hist, last, ext, runs>>

\* Between two calls the source image is replaced or touched.
RewriteImage(id, dt) == arg.pc = "idle" /\ ModifyFile("img", id, dt)

NextSteps ==
    \/ \E e \in Entries, s \in SoxParams, force \in BOOLEAN, soxOk \in BOOLEAN :
          CallWriteSong(e, s, force, soxOk)
    \/ StepConvert
    \/ StepCopy
    \/ StepImage
    \/ StepTags
    \/ StepParams
    \/ \E id \in ImgIds, dt \in 0..MaxGap : RewriteImage(id, dt)

SpecSteps == InitSteps /\ [][NextSteps]_vars

(***************************************************************************)
(* C26.  The destination's fingerprint is written last: within one         *)
(* write_song call the destination's sidecar is written only after the     *)
(* converted audio was copied to the destination, the image passed the     *)
(* size check and was processed, and the tags were written; a call in      *)
(* which the transcoder fails or the image is rejected writes no           *)
(* destination fingerprint, the destination file being left as it was in   *)
(* the first case and overwritten by the copy in the second.  Taken as one *)
(* step, the call is write_song.                                           *)
(***************************************************************************)
InCall == arg.pc # "idle"
Returns == arg.pc # "idle" /\ arg'.pc = "idle"

C26_FingerprintLast ==
    [][/\ fs'.side["dest"] # fs.side["dest"]
          => /\ InCall /\ arg.pc = "params"
             /\ arg.done = <<"convert", "copy", "image", "tags">>
             /\ fs.file["dest"].exists
             /\ fs.file["dest"].id = fs.file["conv"].id
             /\ fs.file["dest"].sox = arg.sox
             /\ ~TupleLess(ImgSize(fs.file["img"].id), <<MinImgWidth, MinImgHeight>>)
             /\ fs.file["dest"].tags.img = arg.data
             /\ fs.file["dest"].tags.e = [k \in DOMAIN arg.entry |-> arg.entry[k].v]
             /\ Returns /\ res'.result = "built"
       /\ (Returns /\ res'.result = "soxfail")
          => /\ res'.done = <<>>
             /\ fs'.side["dest"] = arg.start.side["dest"]
             /\ fs'.file["dest"] = arg.start.file["dest"]
       /\ (Returns /\ res'.result = "imgreject")
          => /\ res'.done = <<"convert", "copy">>
             /\ fs'.side["dest"] = arg.start.side["dest"]
             /\ fs'.file["dest"] = [fs'.file["conv"] EXCEPT !.mtime = now]
       /\ Returns
          => LET w == WriteSong(arg.start, arg.entry, arg.sox, arg.force,
                                arg.soxOk, now)
             IN /\ res'.result = w.result
                /\ fs' = w.fs
                /\ res'.result = "built" <=> "dest" \in w.eff.wsides]_vars

C26_Witness ==
    /\ arg.pc = "idle"
    /\ res # None /\ res.result = "imgreject"
    /\ fs.file["dest"].exists
    /\ fs.file["dest"].tags = NoTags
    /\ fs.side["dest"].exists
    /\ fs.side["dest"].json.img_params = Md5Params(1)
    /\ fs.file["img"].id = 3

=============================================================================
